---- MODULE Spec2Model ----
(***************************************************************************)
(* live-cache: the Collection (indexed in-memory document store), the      *)
(* Document identifier generator, the Controller hydration / commit state  *)
(* machine and the ObjectStore once-only initialisation.                   *)
(*                                                                         *)
(* Values.  A payload (TVariable) is a function from field names to        *)
(* values; the fields of Fields carry numbers, the reserved field "_id"    *)
(* carries an identifier string.  An identifier is the pair <<ts, c>> of   *)
(* the seconds timestamp (as an offset from EpochSeconds) and the counter  *)
(* segment; its 24 hex characters are produced by IdChars.  Strings are    *)
(* handled as sequences of UTF-16 code units wherever the code looks at    *)
(* their characters (stableStringify, fnv1a).                              *)
(***************************************************************************)
EXTENDS Integers, Sequences, FiniteSets, TLC

(***************************************************************************)
(* Bounds of the model.                                                    *)
(***************************************************************************)
MaxCounter == 3      \* documents created per collection before inserts stop
MaxClock == 1        \* seconds the clock may advance
MaxWrap == 3         \* counters within this distance of 0 and of 2^24
MaxValue == 2        \* field "id" takes the values 1..MaxValue
MaxX == 1            \* field "x" takes the values 1..MaxX
MaxCalls == 2        \* async calls (initialise, initialiseOnce, commit) started
MaxSubscribers == 1  \* callbacks that may subscribe in Spec
MaxCallbacks == 2    \* callbacks that may subscribe in SpecNotify
MaxPersisted == 2    \* records in the snapshot an earlier session persisted
MaxFetched == 2      \* rows a fetch returns
MaxTotal == 3        \* the total a fetch reports: the number of rows, or MaxTotal
MaxDocs == 2         \* documents the controller's collection creates
MaxInvocations == 4  \* calls of a method wrapped by withMutation
MaxSockets == 3      \* WebSockets a WebsocketInvalidator creates

(***************************************************************************)
(* Program constants.                                                      *)
(***************************************************************************)
CounterModulus == 16777215   \* 0xffffff, Document.generateId
FnvOffsetHi == 33052         \* 0x811c   (0x811c9dc5)
FnvOffsetLo == 40389         \* 0x9dc5
FnvPrimeHi == 256            \* 0x0100   (0x01000193)
FnvPrimeLo == 403            \* 0x0193
EpochSeconds == 1700000000   \* Math.floor(Date.now() / 1000) when the model starts
InitialTotal == -1
InitialLimit == 10

Fields == {"id", "x"}
FieldValues(k) == IF k = "id" THEN 1..MaxValue ELSE 1..MaxX

\* UTF-16 code units of the field names.
KeyChars(k) ==
  CASE k = "_id" -> <<95, 105, 100>>
    [] k = "id" -> <<105, 100>>
    [] k = "x" -> <<120>>

\* Document.processId rendered by toString(16).padStart(10, "0"): one value
\* drawn at process start ("00c0ffee42").
ProcessIdHex == <<48, 48, 99, 48, 102, 102, 101, 101, 52, 50>>

(***************************************************************************)
(* Number and string formatting.                                           *)
(***************************************************************************)
HexDigit(d) == IF d < 10 THEN 48 + d ELSE 87 + d

RECURSIVE HexChars(_)
HexChars(n) == IF n < 16 THEN <<HexDigit(n)>>
               ELSE Append(HexChars(n \div 16), HexDigit(n % 16))

RECURSIVE Zeros(_)
Zeros(n) == IF n <= 0 THEN <<>> ELSE <<48>> \o Zeros(n - 1)

\* n.toString(16).padStart(width, "0")
PadHex(n, width) == LET h == HexChars(n) IN Zeros(width - Len(h)) \o h

RECURSIVE DecChars(_)
\* String(n) for a non-negative integer
DecChars(n) == IF n < 10 THEN <<48 + n>>
               ELSE Append(DecChars(n \div 10), 48 + (n % 10))

\* JSON.stringify of a string without characters that need escaping
Quote(chars) == <<34>> \o chars \o <<34>>

(***************************************************************************)
(* Document.generateId                                                      *)
(***************************************************************************)
generateId(counter, t) == <<t, (counter + 1) % CounterModulus>>

\* the 24 characters of an identifier
IdChars(id) == PadHex(EpochSeconds + id[1], 8) \o ProcessIdHex \o PadHex(id[2], 6)

(***************************************************************************)
(* Collection.hash = fnv1a(stableStringify(value))                         *)
(***************************************************************************)
RECURSIVE Xor(_, _)
Xor(a, b) == IF a = 0 THEN b
             ELSE IF b = 0 THEN a
             ELSE ((a + b) % 2) + 2 * Xor(a \div 2, b \div 2)

\* one round: hash ^= code; hash = Math.imul(hash, 0x01000193), on the two
\* 16-bit halves of the 32-bit word
FnvRound(h, code) ==
  LET lo == Xor(h[2], code)
      p == lo * FnvPrimeLo
  IN <<(h[1] * FnvPrimeLo + lo * FnvPrimeHi + p \div 65536) % 65536, p % 65536>>

RECURSIVE FnvFold(_, _, _)
FnvFold(h, chars, i) == IF h[1] >= 0 /\ i > Len(chars) THEN h
                        ELSE FnvFold(FnvRound(h, chars[i]), chars, i + 1)

\* (hash >>> 0).toString(16).padStart(8, "0")
fnv1a(chars) == LET h == FnvFold(<<FnvOffsetHi, FnvOffsetLo>>, chars, 1)
                IN PadHex(h[1], 4) \o PadHex(h[2], 4)

\* lexicographic order on code-unit sequences (Array.prototype.sort default)
RECURSIVE CharsLess(_, _, _)
CharsLess(a, b, i) ==
  IF i > Len(a) THEN i <= Len(b)
  ELSE IF i > Len(b) THEN FALSE
  ELSE IF a[i] # b[i] THEN a[i] < b[i]
  ELSE CharsLess(a, b, i + 1)

RECURSIVE SortKeys(_)
SortKeys(S) ==
  IF S = {} THEN <<>>
  ELSE LET m == CHOOSE k \in S : \A o \in S \ {k} : CharsLess(KeyChars(k), KeyChars(o), 1)
       IN <<m>> \o SortKeys(S \ {m})

\* stableStringify of a primitive: a number, or (under "_id") a string
StringifyValue(k, v) == IF k = "_id" THEN Quote(IdChars(v)) ELSE DecChars(v)

RECURSIVE JoinEntries(_, _, _)
JoinEntries(obj, keys, i) ==
  IF i > Len(keys) THEN <<>>
  ELSE (IF i > 1 THEN <<44>> ELSE <<>>)
       \o Quote(KeyChars(keys[i])) \o <<58>> \o StringifyValue(keys[i], obj[keys[i]])
       \o JoinEntries(obj, keys, i + 1)

\* stableStringify of a plain object: keys sorted
stableStringify(obj) == <<123>> \o JoinEntries(obj, SortKeys(DOMAIN obj), 1) \o <<125>>

hash(obj) == fnv1a(stableStringify(obj))

(***************************************************************************)
(* Collection.hash over objects that keep the insertion order of their     *)
(* keys and may be nested.  A value is <<"num", n>> or <<"object", es>>,   *)
(* es the entries <<key, value>> in insertion order.                       *)
(***************************************************************************)
\* Object.keys(value)
ObjectKeys(value) == [i \in 1..Len(value[2]) |-> value[2][i][1]]

\* value[k]
ValueAt(value, k) == value[2][CHOOSE i \in 1..Len(value[2]) : value[2][i][1] = k][2]

\* (mutant) the keys are left in insertion order
sortSkipped(keys) == keys

\* keys.sort(): ascending UTF-16 code unit order
RECURSIVE sort(_)
sort(keys) ==
  IF keys = <<>> THEN <<>>
  ELSE LET k == Head(keys)
           sorted == sort(Tail(keys))
       IN SelectSeq(sorted, LAMBDA o : ~CharsLess(KeyChars(k), KeyChars(o), 1))
          \o <<k>>
          \o SelectSeq(sorted, LAMBDA o : CharsLess(KeyChars(k), KeyChars(o), 1))

RECURSIVE stableStringifyOf(_)
RECURSIVE JoinSorted(_, _, _)
JoinSorted(value, keys, i) ==
  IF i > Len(keys) THEN <<>>
  ELSE (IF i > 1 THEN <<44>> ELSE <<>>)
       \o Quote(KeyChars(keys[i])) \o <<58>> \o stableStringifyOf(ValueAt(value, keys[i]))
       \o JoinSorted(value, keys, i + 1)

\* stableStringify of a finite number or a plain object
stableStringifyOf(value) ==
  IF value[1] = "num" THEN DecChars(value[2])
  ELSE <<123>> \o JoinSorted(value, sort(ObjectKeys(value)), 1) \o <<125>>

\* Collection.hash(value)
hashAny(value) == fnv1a(stableStringifyOf(value))

\* the plain objects of the bounded model: flat ones, and ones whose field
\* "x" may hold a flat object
Num(n) == <<"num", n>>
Obj(es) == <<"object", es>>
EntryLists(idValues, xValues) ==
  {<<>>} \cup {<< <<"id", v>> >> : v \in idValues} \cup {<< <<"x", w>> >> : w \in xValues}
  \cup {<< <<"id", v>>, <<"x", w>> >> : v \in idValues, w \in xValues}
  \cup {<< <<"x", w>>, <<"id", v>> >> : v \in idValues, w \in xValues}
FlatObjects == {Obj(es) : es \in EntryLists({Num(n) : n \in 1..MaxValue},
                                            {Num(n) : n \in 1..MaxX})}
PlainObjects == {Obj(es) : es \in EntryLists({Num(n) : n \in 1..MaxValue},
                                             {Num(n) : n \in 1..MaxX} \cup FlatObjects)}

\* Collection.hash of the value of field k
hashValue(k, v) == fnv1a(StringifyValue(k, v))

\* The identifiers, payloads and objects the bounded model can form.
\* (second -1 is that of an earlier session, whose snapshot may be persisted)
Ids == ((-1)..MaxClock) \X (0..(MaxCounter + 1))
Payloads == UNION {{r \in [S -> 1..(MaxValue + MaxX)] : \A k \in S : r[k] \in FieldValues(k)} :
                   S \in SUBSET Fields}
\* two numbers whose decimal texts have the same FNV-1a hash (101e944b), and
\* the payloads that hold them in field "id"
CollidingValues == {40189, 797186}
CollidingPayloads == {[id |-> v] : v \in CollidingValues}

Objects == Payloads \cup CollidingPayloads
           \cup {[k \in {"_id"} \cup DOMAIN r |-> IF k = "_id" THEN id ELSE r[k]] :
                   r \in Payloads \cup CollidingPayloads, id \in Ids}

\* hash and hashValue tabulated once over the objects and values of the model
hashMemo == [o \in Objects |-> hash(o)] @@ <<>>
hashValueMemo ==
  [k \in Fields |->
     [v \in FieldValues(k) \cup (IF k = "id" THEN CollidingValues ELSE {}) |->
        hashValue(k, v)] @@ <<>>] @@ <<>>
hashIdMemo == [id \in Ids |-> hashValue("_id", id)] @@ <<>>

hashOf(obj) == hashMemo[obj]
hashOfValue(k, v) == IF k = "_id" THEN hashIdMemo[v] ELSE hashValueMemo[k][v]

(***************************************************************************)
(* Document                                                                *)
(***************************************************************************)
Document(data, counter, t) == [_id |-> generateId(counter, t), data |-> data]

\* { _id: this._id, ...this.data }: a payload field "_id" overrides the identifier
toModel(doc) ==
  [k \in {"_id"} \cup DOMAIN doc.data |->
     IF k \in DOMAIN doc.data THEN doc.data[k] ELSE doc._id]

toData(doc) == doc.data

\* { ...this.data, ...data }
updateData(doc, update) ==
  [doc EXCEPT !.data = [k \in DOMAIN doc.data \cup DOMAIN update |->
                          IF k \in DOMAIN update THEN update[k] ELSE doc.data[k]]]

(***************************************************************************)
(* Collection.  dataMap is the insertion-ordered object of the code: a     *)
(* sequence of entries [key, doc]; indexes maps a hash key to the list of  *)
(* identifiers stored under it.  A document object is denoted by the       *)
(* position of its entry in dataMap.                                       *)
(***************************************************************************)
Range(s) == {s[i] : i \in 1..Len(s)}

EmptyCollection == [dataMap |-> <<>>, indexes |-> <<>>, counter |-> 0]

\* position of key k in the ordered map, 0 when absent
MapPos(dm, k) == IF \E i \in 1..Len(dm) : dm[i].key = k
                 THEN CHOOSE i \in 1..Len(dm) : dm[i].key = k
                 ELSE 0

\* dataMap[k] = doc
MapSet(dm, k, doc) == IF MapPos(dm, k) > 0
                      THEN [dm EXCEPT ![MapPos(dm, k)].doc = doc]
                      ELSE Append(dm, [key |-> k, doc |-> doc])

\* delete dataMap[k]
MapDelete(dm, k) == SelectSeq(dm, LAMBDA e : e.key # k)

\* the where arguments: undefined, a string, a partial object
WNone == <<"none">>
WStr(id) == <<"str", id>>
WObj(o) == <<"obj", o>>

\* (mutant) the list under key is replaced instead of extended
IndexPushReplacing(ix, key, id) ==
  IF key \notin DOMAIN ix THEN ix @@ (key :> <<id>>)
  ELSE [ix EXCEPT ![key] = <<id>>]

\* (mutant) the identifier is pushed without looking for it in the list
IndexPushAlways(ix, key, id) ==
  IF key \notin DOMAIN ix THEN ix @@ (key :> <<id>>)
  ELSE [ix EXCEPT ![key] = Append(@, id)]

\* push id on indexes[key] unless present
IndexPush(ix, key, id) ==
  IF key \notin DOMAIN ix THEN ix @@ (key :> <<id>>)
  ELSE IF id \in Range(ix[key]) THEN ix
  ELSE [ix EXCEPT ![key] = Append(@, id)]

\* filter id out of indexes[key]; drop the entry when it becomes empty
IndexPull(ix, key, id) ==
  IF key \notin DOMAIN ix THEN ix
  ELSE LET rest == SelectSeq(ix[key], LAMBDA e : e # id)
       IN IF rest = <<>>
          THEN (IF DOMAIN ix = {key} THEN <<>> ELSE [k \in DOMAIN ix \ {key} |-> ix[k]])
          ELSE [ix EXCEPT ![key] = rest]

\* the index keys of a document: one per model field other than _id
FieldKeys(model) == {hashOf([f \in {k} |-> model[k]]) : k \in DOMAIN model \ {"_id"}}

RECURSIVE PushAll(_, _, _)
PushAll(ix, keys, id) ==
  IF keys = {} THEN ix
  ELSE LET k == CHOOSE k \in keys : TRUE
       IN PushAll(IndexPush(ix, k, id), keys \ {k}, id)

RECURSIVE PullAll(_, _, _)
PullAll(ix, keys, id) ==
  IF keys = {} THEN ix
  ELSE LET k == CHOOSE k \in keys : TRUE
       IN PullAll(IndexPull(ix, k, id), keys \ {k}, id)

addToIndexes(ix, doc) ==
  IndexPush(PushAll(ix, FieldKeys(toModel(doc)), doc._id), hashOf(toModel(doc)), doc._id)

removeFromIndexes(ix, doc) ==
  IndexPull(PullAll(ix, FieldKeys(toModel(doc)), doc._id), hashOf(toModel(doc)), doc._id)

matchesConditions(doc, where) ==
  LET model == toModel(doc)
  IN \A k \in DOMAIN where :
       /\ k \in DOMAIN model
       /\ hashOfValue(k, model[k]) = hashOfValue(k, where[k])

\* positions of the documents a linear scan of Object.values(dataMap) keeps
ScanPos(c, where) ==
  SelectSeq([i \in 1..Len(c.dataMap) |-> i],
            LAMBDA i : matchesConditions(c.dataMap[i].doc, where))

\* (mutant) the empty object finds nothing
findOneNotEmpty(c, where) ==
  IF where[1] = "str" THEN MapPos(c.dataMap, where[2])
  ELSE IF DOMAIN where[2] = {} THEN 0
  ELSE IF ScanPos(c, where[2]) = <<>> THEN 0 ELSE ScanPos(c, where[2])[1]

\* findOne: the position of the document returned, 0 for null
findOne(c, where) ==
  IF where[1] = "str" THEN MapPos(c.dataMap, where[2])
  ELSE LET w == where[2]
           indexKey == hashOf(w)
           hit == IF indexKey \in DOMAIN c.indexes /\ Len(c.indexes[indexKey]) > 0
                  THEN MapPos(c.dataMap, c.indexes[indexKey][1])
                  ELSE 0
           scan == ScanPos(c, w)
       IN IF hit > 0 /\ matchesConditions(c.dataMap[hit].doc, w) THEN hit
          ELSE IF scan = <<>> THEN 0 ELSE scan[1]

\* find: the positions of the documents returned, in result order
findPos(c, where) ==
  IF where[1] = "none" \/ (where[1] = "obj" /\ DOMAIN where[2] = {})
  THEN [i \in 1..Len(c.dataMap) |-> i]
  ELSE IF where[1] = "str"
  THEN (IF MapPos(c.dataMap, where[2]) > 0 THEN <<MapPos(c.dataMap, where[2])>> ELSE <<>>)
  ELSE LET w == where[2]
           indexKey == hashOf(w)
           ids == IF indexKey \in DOMAIN c.indexes THEN c.indexes[indexKey] ELSE <<>>
           mapped == [i \in 1..Len(ids) |-> MapPos(c.dataMap, ids[i])]
           candidateDocs == SelectSeq(mapped,
                              LAMBDA p : p > 0 /\ matchesConditions(c.dataMap[p].doc, w))
       IN IF Len(candidateDocs) > 0 THEN candidateDocs ELSE ScanPos(c, w)

find(c, where) == LET ps == findPos(c, where) IN [i \in 1..Len(ps) |-> c.dataMap[ps[i]].doc]

\* (mutant) the new document is stored but not indexed
insertOneUnindexed(c, data, t) ==
  LET doc == Document(data, c.counter, t)
  IN [dataMap |-> MapSet(c.dataMap, doc._id, doc),
      indexes |-> c.indexes,
      counter |-> c.counter + 1]

insertOne(c, data, t) ==
  LET doc == Document(data, c.counter, t)
  IN [dataMap |-> MapSet(c.dataMap, doc._id, doc),
      indexes |-> addToIndexes(c.indexes, doc),
      counter |-> c.counter + 1]

RECURSIVE insertMany(_, _, _)
insertMany(c, dataArray, t) ==
  IF dataArray = <<>> THEN c
  ELSE insertMany(insertOne(c, Head(dataArray), t), Tail(dataArray), t)

deleteOne(c, where) ==
  LET p == findOne(c, where)
      doc == c.dataMap[p].doc
  IN IF p = 0 THEN c
     ELSE [c EXCEPT !.indexes = removeFromIndexes(c.indexes, doc),
                    !.dataMap = MapDelete(c.dataMap, doc._id)]

\* (mutant) when nothing matches, the fields of where are merged into the new document
findOneAndUpdateMerging(c, where, update, t) ==
  LET p == findOne(c, where)
      doc == c.dataMap[p].doc
      newDoc == updateData(doc, update[1])
      merged == IF where[1] = "obj" THEN updateData([data |-> where[2]], update[1]).data
                ELSE update[1]
  IN IF update = <<>> THEN c
     ELSE IF p = 0
     THEN LET ins == insertOne(c, merged, t)
          IN [ins EXCEPT !.indexes = addToIndexes(@, Document(merged, c.counter, t))]
     ELSE [c EXCEPT !.indexes = addToIndexes(removeFromIndexes(c.indexes, doc), newDoc),
                    !.dataMap[p].doc = newDoc]

\* update is <<>> when absent (falsy), <<payload>> otherwise
findOneAndUpdate(c, where, update, t) ==
  LET p == findOne(c, where)
      doc == c.dataMap[p].doc
      newDoc == updateData(doc, update[1])
  IN IF update = <<>> THEN c
     ELSE IF p = 0
     THEN LET ins == insertOne(c, update[1], t)
          IN [ins EXCEPT !.indexes = addToIndexes(@, Document(update[1], c.counter, t))]
     ELSE [c EXCEPT !.indexes = addToIndexes(removeFromIndexes(c.indexes, doc), newDoc),
                    !.dataMap[p].doc = newDoc]

\* a clear() that empties the maps and keeps the counter
clearKeepingCounter(c) == [EmptyCollection EXCEPT !.counter = c.counter]

clear(c) == EmptyCollection

\* the parsed form of serialize()'s JSON text
serialize(c) ==
  [counter |-> c.counter,
   documents |-> [i \in 1..Len(c.dataMap) |-> toModel(c.dataMap[i].doc)]]

\* const { _id, ...rest } = docData
Rest(docData) == [k \in DOMAIN docData \ {"_id"} |-> docData[k]]

RECURSIVE Restore(_, _, _, _, _)
RECURSIVE RestoreSameCounter(_, _, _, _, _)
\* (mutant) every restored document is created with counter 0
RestoreSameCounter(c, documents, i, t, byOwnId) ==
  IF i > Len(documents) THEN c
  ELSE LET doc == Document(Rest(documents[i]), 0, t)
           key == IF byOwnId THEN doc._id ELSE documents[i]["_id"]
       IN RestoreSameCounter([c EXCEPT !.dataMap = MapSet(@, key, doc),
                                       !.indexes = addToIndexes(@, doc)],
                             documents, i + 1, t, byOwnId)

\* the restore loop of deserialize (keyed by the generated id) and of
\* hydrate (keyed by the persisted _id)
Restore(c, documents, i, t, byOwnId) ==
  IF i > Len(documents) THEN c
  ELSE LET doc == Document(Rest(documents[i]), i - 1, t)
           key == IF byOwnId THEN doc._id ELSE documents[i]["_id"]
       IN Restore([c EXCEPT !.dataMap = MapSet(@, key, doc),
                            !.indexes = addToIndexes(@, doc)],
                  documents, i + 1, t, byOwnId)

deserialize(data, t) ==
  Restore([EmptyCollection EXCEPT !.counter = data.counter], data.documents, 1, t, TRUE)

hydrate(c, data, t) ==
  Restore([EmptyCollection EXCEPT !.counter = data.counter], data.documents, 1, t, FALSE)

(***************************************************************************)
(* deserialize and hydrate over any text.  A text is denoted by what       *)
(* JSON.parse makes of it:                                                 *)
(*   <<"invalid">>              JSON.parse throws                          *)
(*   <<"null">>                 the JSON value null                        *)
(*   <<"scalar">>               a JSON number                              *)
(*   <<"obj", counter, docs>>   an object; counter is <<>> when the field  *)
(*                              is absent, <<n>> otherwise; docs is        *)
(*                              <<"absent">>, <<"other">> (not an array)   *)
(*                              or <<"array", entries>>                    *)
(* and an entry of the array is <<"obj", o>>, <<"null">> or <<"scalar">>.  *)
(***************************************************************************)
\* JSON.stringify(data) of serialize()
stringify(data) ==
  <<"obj", <<data.counter>>,
    <<"array", [i \in 1..Len(data.documents) |-> <<"obj", data.documents[i]>>]>> >>

\* dataMap[undefined]: the key an entry without _id is stored under by hydrate
UndefinedKey == <<-2, 0>>

\* data.counter || 0
CounterOf(s) == IF s[2] = <<>> THEN 0 ELSE s[2][1]

\* the restore loop over the entries of data.documents: destructuring null
\* throws and ends the loop; a number destructures to no _id and an empty rest
RECURSIVE RestoreEntries(_, _, _, _, _)
RestoreEntries(c, entries, i, t, byOwnId) ==
  IF i > Len(entries) \/ entries[i][1] = "null" THEN c
  ELSE LET docData == IF entries[i][1] = "obj" THEN entries[i][2] ELSE <<>>
           doc == Document(Rest(docData), i - 1, t)
           key == IF byOwnId THEN doc._id
                  ELSE IF "_id" \in DOMAIN docData THEN docData["_id"]
                  ELSE UndefinedKey
       IN RestoreEntries([c EXCEPT !.dataMap = MapSet(@, key, doc),
                                   !.indexes = addToIndexes(@, doc)],
                         entries, i + 1, t, byOwnId)

\* Collection.deserialize(name, s): the collection is created before the try
\* and returned after the catch
deserializeFrom(s, t) ==
  IF s[1] # "obj" THEN EmptyCollection
  ELSE IF s[3][1] # "array" THEN [EmptyCollection EXCEPT !.counter = CounterOf(s)]
  ELSE RestoreEntries([EmptyCollection EXCEPT !.counter = CounterOf(s)], s[3][2], 1, t, TRUE)

\* c.hydrate(s): JSON.parse comes first, the maps are cleared next, then
\* data.counter is read
hydrateFrom(c, s, t) ==
  IF s[1] = "invalid" THEN c
  ELSE IF s[1] = "null" THEN [c EXCEPT !.dataMap = <<>>, !.indexes = <<>>]
  ELSE IF s[1] = "scalar" THEN EmptyCollection
  ELSE IF s[3][1] # "array" THEN [EmptyCollection EXCEPT !.counter = CounterOf(s)]
  ELSE RestoreEntries([EmptyCollection EXCEPT !.counter = CounterOf(s)], s[3][2], 1, t, FALSE)

\* the entries and texts of the bounded model
TextEntries == {<<"obj", [_id |-> <<-1, n>>, id |-> 1]>> : n \in 1..2}
               \cup {<<"obj", [id |-> 2]>>, <<"null">>, <<"scalar">>}
TextArrays == {<<>>} \cup {<<e>> : e \in TextEntries}
              \cup {<<e, f>> : e \in TextEntries, f \in TextEntries}
Texts == {<<"invalid">>, <<"null">>, <<"scalar">>}
         \cup {<<"obj", n, d>> : n \in {<<>>, <<1>>},
                                 d \in {<<"absent">>, <<"other">>}
                                        \cup {<<"array", es>> : es \in TextArrays}}

(***************************************************************************)
(* A Collection driven directly through its public operations.             *)
(*   col    the collection                                                 *)
(*   clock  Date.now() in seconds, as an offset from EpochSeconds          *)
(*   last   the last operation: its arguments and what it returned         *)
(***************************************************************************)
VARIABLES col, clock, last

cvars == <<col, clock, last>>

(***************************************************************************)
(* The Controller, its StorageManager and the ObjectStore slot.            *)
(*   collection          Controller.collection                             *)
(*   storage             what storageManager.get(name) issued now would    *)
(*                       resolve to (<<>> when nothing is stored); the     *)
(*                       managers apply their operations in issue order    *)
(*   subscribers         Controller.subscribers: the callbacks of the Set, *)
(*                       in insertion order                                *)
(*   ctl                 loading, error, total, page, limit,               *)
(*                       abortController                                   *)
(*   tasks               the async calls in flight                         *)
(*   awaiting            the tasks suspended on a StorageManager promise,  *)
(*                       in the order their promises resolve               *)
(*   nextId              number of async calls started so far, plus one    *)
(*   initialisePromises  ObjectStore.initialisePromises for the controller:*)
(*                       the task whose promise is cached, 0 for none      *)
(*   ev                  the last step taken and what it delivered         *)
(***************************************************************************)
VARIABLES collection, storage, subscribers, ctl, tasks, awaiting, nextId,
          initialisePromises, ev

ctlvars == <<collection, storage, subscribers, ctl, tasks, awaiting, nextId,
             initialisePromises, ev>>

(***************************************************************************)
(* Transactions over a LocalStorageStorageManager, and a method wrapped by *)
(* withMutation.                                                           *)
(*   localStorage  the entries of window.localStorage: key to JSON text    *)
(*   wrapped       the loading and error fields of the wrapped method      *)
(*   invocations   the calls of the wrapped method so far: "running",      *)
(*                 "resolved" or "rejected"                                *)
(***************************************************************************)
VARIABLES localStorage, wrapped, invocations

txvars == <<localStorage>>
mutvars == <<wrapped, invocations>>

(***************************************************************************)
(* A WebsocketInvalidator and the WebSockets it has created.               *)
(*   invalidator  its fields socket (0 for null, else the number of the    *)
(*                WebSocket), reconnectTimer (a timer is pending), active, *)
(*                and the option reconnect                                 *)
(*   sockets      the readyState of every WebSocket created so far:        *)
(*                "connecting", "open", "closing" (closed by either side,  *)
(*                close event not yet delivered) or "closed"               *)
(*   invoked      how many times the bound invalidate callback ran for the *)
(*                last server message                                      *)
(***************************************************************************)
VARIABLES invalidator, sockets, invoked

wsvars == <<invalidator, sockets, invoked>>

vars == <<col, clock, last, collection, storage, subscribers, ctl, tasks, awaiting,
          nextId, initialisePromises, ev, localStorage, wrapped, invocations,
          invalidator, sockets, invoked>>

\* new WebsocketInvalidator(url): no socket, no timer, not active, reconnect on
NewInvalidator == [socket |-> 0, reconnectTimer |-> FALSE, active |-> FALSE,
                   reconnect |-> TRUE]

WsIdle == /\ invalidator = NewInvalidator
          /\ sockets = <<>>
          /\ invoked = 0

TxIdle == localStorage = <<>>

\* wrapped.loading = false; wrapped.error = null
MutIdle == /\ wrapped = [loading |-> FALSE, error |-> "null"]
           /\ invocations = <<>>

\* the Controller after construction, nothing persisted
NoTask == [id |-> 0, kind |-> "none", pc |-> "done", where |-> WNone, once |-> FALSE,
           models |-> <<>>, fromStorage |-> <<>>, fetched |-> <<>>, path |-> "none",
           fetches |-> 0, gets |-> 0, commits |-> 0, quiet |-> FALSE,
           startEmpty |-> FALSE, outcome |-> "pending"]

Event(type, task, snapshot, to) ==
  [type |-> type, task |-> task, snapshot |-> snapshot, to |-> to]

NewController ==
  [loading |-> FALSE, error |-> "null", total |-> InitialTotal, page |-> 0,
   limit |-> InitialLimit, abortController |-> "null", initialised |-> FALSE]

CtlIdle == /\ collection = EmptyCollection
           /\ storage = <<>>
           /\ subscribers = <<>>
           /\ ctl = NewController
           /\ tasks = <<>>
           /\ awaiting = <<>>
           /\ nextId = 1
           /\ initialisePromises = 0
           /\ ev = Event("new", NoTask, <<>>, <<>>)

NoId == <<0, 0>>      \* a string that is no stored identifier ("nonexistent")

KnownIds(c) == {c.dataMap[i].key : i \in 1..Len(c.dataMap)}
               \cup {c.dataMap[i].doc._id : i \in 1..Len(c.dataMap)}

Wheres(c) == {WStr(id) : id \in KnownIds(c) \cup {NoId}} \cup {WObj(w) : w \in Payloads}

Batches == {<<>>} \cup {<<r>> : r \in Payloads} \cup {<<r, q>> : r \in Payloads, q \in Payloads}

\* op: the operation; pos: the position in dataMap of the document it returned
\* (0 for null); ok: its boolean result (for the others, whether a document was found)
Op(op, pos, ok) == [op |-> op, pos |-> pos, ok |-> ok]

CInit == /\ col = EmptyCollection
         /\ clock = 0
         /\ last = Op("new", 0, TRUE)
         /\ CtlIdle
         /\ TxIdle
         /\ MutIdle
         /\ WsIdle

CInsertOne(r) ==
  /\ col.counter < MaxCounter
  /\ col' = insertOne(col, r, clock)
  /\ last' = Op("insertOne",
                MapPos(col'.dataMap, generateId(col.counter, clock)), TRUE)
  /\ UNCHANGED <<clock, ctlvars, txvars, mutvars, wsvars>>

CInsertMany(rs) ==
  /\ col.counter + Len(rs) <= MaxCounter
  /\ col' = insertMany(col, rs, clock)
  /\ last' = Op("insertMany", 0, TRUE)
  /\ UNCHANGED <<clock, ctlvars, txvars, mutvars, wsvars>>

CFindOneAndUpdate(where, update) ==
  /\ update = <<>> \/ findOne(col, where) > 0 \/ col.counter < MaxCounter
  /\ col' = findOneAndUpdate(col, where, update, clock)
  /\ last' = Op("findOneAndUpdate",
                IF update = <<>> \/ findOne(col, where) > 0 THEN findOne(col, where)
                ELSE MapPos(col'.dataMap, generateId(col.counter, clock)),
                findOne(col, where) > 0)
  /\ UNCHANGED <<clock, ctlvars, txvars, mutvars, wsvars>>

CDeleteOne(where) ==
  /\ col' = deleteOne(col, where)
  /\ last' = Op("deleteOne", findOne(col, where), findOne(col, where) > 0)
  /\ UNCHANGED <<clock, ctlvars, txvars, mutvars, wsvars>>

CClear ==
  /\ col' = clear(col)
  /\ last' = Op("clear", 0, TRUE)
  /\ UNCHANGED <<clock, ctlvars, txvars, mutvars, wsvars>>

\* other.hydrate(c.serialize()), the hydrated collection taking c's place
CHydrate ==
  /\ col' = hydrate(col, serialize(col), clock)
  /\ last' = Op("hydrate", 0, TRUE)
  /\ UNCHANGED <<clock, ctlvars, txvars, mutvars, wsvars>>

\* Collection.deserialize(name, c.serialize())
CDeserialize ==
  /\ col' = deserialize(serialize(col), clock)
  /\ last' = Op("deserialize", 0, TRUE)
  /\ UNCHANGED <<clock, ctlvars, txvars, mutvars, wsvars>>

CTick ==
  /\ clock < MaxClock
  /\ clock' = clock + 1
  /\ last' = Op("tick", 0, TRUE)
  /\ UNCHANGED <<col, ctlvars, txvars, mutvars, wsvars>>

MutationNext ==
  \/ \E r \in Payloads : CInsertOne(r)
  \/ \E rs \in Batches : CInsertMany(rs)
  \/ \E w \in Wheres(col) : \E u \in {<<>>} \cup {<<r>> : r \in Payloads} :
       CFindOneAndUpdate(w, u)
  \/ \E w \in Wheres(col) : CDeleteOne(w)

CollectionNext ==
  \/ MutationNext
  \/ CTick
  \/ CClear
  \/ CHydrate
  \/ CDeserialize

\* the operation and the text it was given
OpText(op, s) == [op |-> op, pos |-> 0, ok |-> TRUE, text |-> s]

\* col.hydrate(s) for any text s, the collection's own serialize() included
CHydrateFrom(s) ==
  /\ col' = hydrateFrom(col, s, clock)
  /\ last' = OpText("hydrateFrom", s)
  /\ UNCHANGED <<clock, ctlvars, txvars, mutvars, wsvars>>

\* Collection.deserialize(name, s) for any text s, the returned collection
\* taking col's place
CDeserializeFrom(s) ==
  /\ col' = deserializeFrom(s, clock)
  /\ last' = OpText("deserializeFrom", s)
  /\ UNCHANGED <<clock, ctlvars, txvars, mutvars, wsvars>>

RestoreNext ==
  \/ \E r \in Payloads : Len(col.dataMap) < MaxDocs /\ CInsertOne(r)
  \/ \E s \in Texts \cup {stringify(serialize(col))} : CHydrateFrom(s)
  \/ \E s \in Texts \cup {stringify(serialize(col))} : CDeserializeFrom(s)

\* insertOne, and hydrate and deserialize over well-formed and malformed texts
SpecRestore == CInit /\ [][RestoreNext]_vars

\* two plain objects a and b are given; Collection.hash is applied to both
HashInit ==
  /\ col = EmptyCollection
  /\ clock = 0
  /\ \E a \in PlainObjects : \E b \in PlainObjects :
       last = [op |-> "given", pos |-> 0, ok |-> TRUE, a |-> a, b |-> b]
  /\ CtlIdle
  /\ TxIdle
  /\ MutIdle
  /\ WsIdle

CHash ==
  /\ last.op = "given"
  /\ last' = [last EXCEPT !.op = "hash"] @@ [ha |-> hashAny(last.a), hb |-> hashAny(last.b)]
  /\ UNCHANGED <<col, clock, ctlvars, txvars, mutvars, wsvars>>

SpecHash == HashInit /\ [][CHash]_vars

(***************************************************************************)
(* Document.generateId on its own: two counters are given, the step        *)
(* renders the identifier of each.  The counters lie within MaxWrap of 0   *)
(* and of 2^24, where the 3-byte segment wraps.                            *)
(***************************************************************************)
Counters == (0..MaxWrap) \cup ((2^24 - 1 - MaxWrap)..(2^24 + MaxWrap))

\* the last 6 of the 24 characters: counterHex
CounterSegment(chars) == SubSeq(chars, 19, 24)

GenerateIdInit ==
  /\ col = EmptyCollection
  /\ clock = 0
  /\ \E c1 \in Counters : \E c2 \in Counters :
       last = [op |-> "given", pos |-> 0, ok |-> TRUE, c1 |-> c1, c2 |-> c2]
  /\ CtlIdle
  /\ TxIdle
  /\ MutIdle
  /\ WsIdle

CGenerateId ==
  /\ last.op = "given"
  /\ last' = [last EXCEPT !.op = "generateId"]
               @@ [id1 |-> IdChars(generateId(last.c1, clock)),
                   id2 |-> IdChars(generateId(last.c2, clock))]
  /\ UNCHANGED <<col, clock, ctlvars, txvars, mutvars, wsvars>>

SpecGenerateId == GenerateIdInit /\ [][CGenerateId]_vars

(***************************************************************************)
(* Transactions (library/core/src/Transactions.ts) with a                  *)
(* LocalStorageStorageManager.  A JSON text is denoted by the value it     *)
(* parses to: <<"string", s>> for a string literal (s the text of          *)
(* serialize()), <<"array", elements>> for an array.                       *)
(***************************************************************************)
\* `transaction::${collection.name}::${Date.now()}` under the manager's prefix
TransactionName(t) == <<"transaction", t>>

\* localStorage.setItem(key, JSON.stringify(models))
setItem(ls, key, models) ==
  IF key \in DOMAIN ls THEN [ls EXCEPT ![key] = models] ELSE ls @@ (key :> models)

\* localStorage.removeItem(key)
removeItem(ls, key) == [k \in DOMAIN ls \ {key} |-> ls[k]]

\* LocalStorageStorageManager.get: [] when nothing is stored or the text
\* stored does not parse to an array
LocalGet(ls, key) ==
  IF key \notin DOMAIN ls THEN <<"array", <<>>>>
  ELSE IF ls[key][1] = "array" THEN ls[key]
  ELSE <<"array", <<>>>>

\* JSON.parse(serialized) of an argument that is an array: the array is first
\* converted to a string, its elements joined by commas; the empty text and
\* "[object Object]" are no JSON, a single number is
ParseOfArray(elements) ==
  IF Len(elements) = 1 /\ elements[1] = <<"scalar">> THEN <<"scalar">> ELSE <<"invalid">>

\* what Transactions.get hands to Collection.deserialize: every array is truthy,
\* so "Transaction not found" is not thrown
TransactionsGet(ls, name) == ParseOfArray(LocalGet(ls, name)[2])

\* await Transactions.add(col)
add ==
  /\ localStorage' = setItem(localStorage, TransactionName(clock),
                             <<"string", stringify(serialize(col))>>)
  /\ last' = [op |-> "add", pos |-> 0, ok |-> TRUE, name |-> TransactionName(clock)]
  /\ UNCHANGED <<col, clock, ctlvars, mutvars, wsvars>>

\* await Transactions.rollback(name, col.name); result is the collection returned
rollback(name) ==
  /\ name \in DOMAIN localStorage
  /\ localStorage' = removeItem(localStorage, name)
  /\ last' = [op |-> "rollback", pos |-> 0, ok |-> TRUE, name |-> name,
              stored |-> localStorage[name],
              result |-> deserializeFrom(TransactionsGet(localStorage, name), clock)]
  /\ UNCHANGED <<col, clock, ctlvars, mutvars, wsvars>>

TransactionsNext ==
  \/ \E r \in Payloads : Len(col.dataMap) < MaxDocs /\ CInsertOne(r)
  \/ \E w \in Wheres(col) : CDeleteOne(w)
  \/ CTick
  \/ add
  \/ \E t \in 0..MaxClock : rollback(TransactionName(t))

SpecTransactions == CInit /\ [][TransactionsNext]_vars

(***************************************************************************)
(* withMutation: one step per synchronous stretch of the wrapped function. *)
(***************************************************************************)
\* the method is called: loading = true, error = null, fn starts
invoke ==
  /\ Len(invocations) < MaxInvocations
  /\ wrapped' = [loading |-> TRUE, error |-> "null"]
  /\ invocations' = Append(invocations, "running")
  /\ UNCHANGED <<cvars, ctlvars, txvars, wsvars>>

\* fn's promise fulfils: finally sets loading = false
resolved(i) ==
  /\ i \in 1..Len(invocations)
  /\ invocations[i] = "running"
  /\ wrapped' = [wrapped EXCEPT !.loading = FALSE]
  /\ invocations' = [invocations EXCEPT ![i] = "resolved"]
  /\ UNCHANGED <<cvars, ctlvars, txvars, wsvars>>

\* fn's promise rejects: catch records the error, finally sets loading = false
rejected(i) ==
  /\ i \in 1..Len(invocations)
  /\ invocations[i] = "running"
  /\ wrapped' = [loading |-> FALSE, error |-> <<"Error", i>>]
  /\ invocations' = [invocations EXCEPT ![i] = "rejected"]
  /\ UNCHANGED <<cvars, ctlvars, txvars, wsvars>>

MutationInit == CInit

WithMutationNext ==
  \/ invoke
  \/ \E i \in 1..MaxInvocations : resolved(i)
  \/ \E i \in 1..MaxInvocations : rejected(i)

SpecWithMutation == MutationInit /\ [][WithMutationNext]_vars

\* c.find(where): found lists the positions of the documents returned
CFind(where) ==
  /\ last' = [op |-> "find", pos |-> 0, ok |-> TRUE, where |-> where,
              found |-> findPos(col, where)]
  /\ UNCHANGED <<col, clock, ctlvars, txvars, mutvars, wsvars>>

\* c.findOne(where): found holds the position of the document returned, if any
CFindOne(where) ==
  /\ last' = [op |-> "findOne", pos |-> findOne(col, where), ok |-> findOne(col, where) > 0,
              where |-> where,
              found |-> IF findOne(col, where) > 0 THEN <<findOne(col, where)>> ELSE <<>>]
  /\ UNCHANGED <<col, clock, ctlvars, txvars, mutvars, wsvars>>

CollisionNext ==
  \/ \E r \in CollidingPayloads \cup {[id |-> 1]} : CInsertOne(r)
  \/ \E r \in CollidingPayloads : CFind(WObj(r))
  \/ \E r \in CollidingPayloads : CFindOne(WObj(r))

\* documents whose field "id" holds values with colliding hashes, and lookups by them
SpecCollision == CInit /\ [][CollisionNext]_vars

\* c.findOneAndUpdate(where, update), the arguments kept with the result
CFindOneAndUpdateArgs(where, update) ==
  /\ update = <<>> \/ findOne(col, where) > 0 \/ col.counter < MaxCounter
  /\ col' = findOneAndUpdate(col, where, update, clock)
  /\ last' = [op |-> "findOneAndUpdate",
              pos |-> IF update = <<>> \/ findOne(col, where) > 0 THEN findOne(col, where)
                      ELSE MapPos(col'.dataMap, generateId(col.counter, clock)),
              ok |-> findOne(col, where) > 0,
              where |-> where, update |-> update]
  /\ UNCHANGED <<clock, ctlvars, txvars, mutvars, wsvars>>

UpdateNext ==
  \/ \E r \in Payloads : Len(col.dataMap) < MaxDocs /\ CInsertOne(r)
  \/ \E w \in Wheres(col) : \E u \in {<<>>} \cup {<<r>> : r \in Payloads} :
       (findOne(col, w) > 0 \/ Len(col.dataMap) < MaxDocs) /\ CFindOneAndUpdateArgs(w, u)
  \/ \E w \in Wheres(col) : CDeleteOne(w)
  \/ CHydrate

\* findOneAndUpdate among inserts, deletes and hydrate
SpecUpdate == CInit /\ [][UpdateNext]_vars

LookupNext ==
  \/ \E r \in Payloads : Len(col.dataMap) < MaxDocs /\ CInsertOne(r)
  \/ \E w \in Wheres(col) : CDeleteOne(w)
  \/ CHydrate
  \/ \E w \in Payloads : CFind(WObj(w))
  \/ \E w \in Payloads : CFindOne(WObj(w))

\* find and findOne by partial objects, the empty one included
SpecLookup == CInit /\ [][LookupNext]_vars

\* the texts hydrate is given in SpecCounter: no JSON, null, an object without
\* counter, the serialize() of an empty collection that has counted to 1
CounterTexts == {<<"invalid">>, <<"null">>, <<"obj", <<>>, <<"absent">>>>,
                 <<"obj", <<1>>, <<"array", <<>>>>>>}

\* the records inserted in SpecCounter, singly and in batches
Records == {[id |-> v] : v \in 1..MaxValue}
RecordBatches == {<<>>} \cup {<<r>> : r \in Records} \cup {<<r, q>> : r \in Records, q \in Records}

CounterNext ==
  \/ \E r \in Records : Len(col.dataMap) < MaxDocs /\ CInsertOne(r)
  \/ \E rs \in RecordBatches : Len(col.dataMap) + Len(rs) <= MaxDocs /\ CInsertMany(rs)
  \/ \E w \in Wheres(col) : \E u \in {<<>>} \cup {<<r>> : r \in Records} :
       (findOne(col, w) > 0 \/ Len(col.dataMap) < MaxDocs) /\ CFindOneAndUpdate(w, u)
  \/ \E w \in Wheres(col) : CDeleteOne(w)
  \/ CClear
  \/ \E s \in CounterTexts \cup {stringify(serialize(col))} : CHydrateFrom(s)

\* every operation that reads or writes the counter
SpecCounter == CInit /\ [][CounterNext]_vars

\* insertOne, insertMany, findOneAndUpdate and deleteOne only
SpecMutations == CInit /\ [][MutationNext]_vars

\* every public operation of Collection
SpecCollection == CInit /\ [][CollectionNext]_vars

(***************************************************************************)
(* Controller, StorageManager and ObjectStore: one action per synchronous  *)
(* stretch of code between two awaits.                                     *)
(***************************************************************************)
\* the records of the controller carry the field "id"
Items == {r \in Payloads : DOMAIN r = {"id"}}

ItemBatches == {<<>>} \cup {<<r>> : r \in Items}
               \cup (IF MaxFetched >= 2 THEN {<<r, q>> : r \in Items, q \in Items} ELSE {})

\* what fetch(where) settles with: [rows, total], one row, or a thrown error
FetchResults == UNION {{<<"rows", rs, n>> : n \in {Len(rs), MaxTotal}} : rs \in ItemBatches}
                \cup {<<"row", r>> : r \in Items}
                \cup {<<"throw">>}

Thrown == "Error"

\* a model persisted by an earlier session
PersistedModel(r, i) ==
  [k \in {"_id"} \cup DOMAIN r |-> IF k = "_id" THEN <<-1, i>> ELSE r[k]]

PersistedSnapshots ==
  {<<>>} \cup {<<PersistedModel(r, 1)>> : r \in Items}
         \cup (IF MaxPersisted >= 2
               THEN {<<PersistedModel(r, 1), PersistedModel(q, 2)>> : r \in Items, q \in Items}
               ELSE {})

\* the arguments initialise is called with
WhereArgs == {WNone} \cup {WObj(w) : w \in Items}
             \cup {WStr(storage[i]["_id"]) : i \in 1..Len(storage)}

\* collection.find().map((doc) => doc.toModel())
Models(c) == [i \in 1..Len(c.dataMap) |-> toModel(c.dataMap[i].doc)]

\* docs.map((doc) => doc.toData())
DataOf(docs) == [i \in 1..Len(docs) |-> toData(docs[i])]

\* (mutant) a set that never reaches the store
setLost(stored, models) == stored

\* StorageManager.set(name, models) and get(name) of the managers that persist
\* (LocalStorageManager, IndexDbStorageManager): what the store holds afterwards,
\* and what a read resolves to ([] when nothing is stored)
set(stored, models) == models

get(stored) == stored

\* (mutant) the total is left as it was
updateTotalSkipped(c, total) == c

updateTotal(c, total) == [c EXCEPT !.total = total]

TaskIn(ts, id) == ts[CHOOSE i \in 1..Len(ts) : ts[i].id = id]

TaskOf(id) == TaskIn(tasks, id)

ReplaceTask(ts, task) == [i \in 1..Len(ts) |-> IF ts[i].id = task.id THEN task ELSE ts[i]]

RemoveTask(ts, id) == SelectSeq(ts, LAMBDA t : t.id # id)

\* another call or a mutation by the caller happened while these were in flight
Quieten(ts) == [i \in 1..Len(ts) |-> [ts[i] EXCEPT !.quiet = FALSE]]

NewTask(kind, where, once) ==
  [NoTask EXCEPT !.id = nextId, !.kind = kind, !.pc = "start", !.where = where,
                 !.once = once, !.quiet = (tasks = <<>>),
                 !.startEmpty = (collection.dataMap = <<>> /\ storage = <<>>)]

\* (mutant) the snapshot delivered holds only the documents matching the call's where
CommittingWhere(task, c) ==
  [task EXCEPT !.pc = "set", !.commits = @ + 1,
               !.models = [i \in 1..Len(find(c, task.where)) |->
                             toModel(find(c, task.where)[i])]]

\* commit() and publish() up to the await of storageManager.set
Committing(task, c) ==
  [task EXCEPT !.pc = "set", !.models = Models(c), !.commits = @ + 1]

\* initialise(where) up to its first await
Start(where, once) ==
  /\ nextId <= MaxCalls
  /\ LET data == DataOf(find(collection, where))
         task == NewTask("initialise", where, once)
     IN IF Len(data) # 0
        THEN /\ ctl' = updateTotal([ctl EXCEPT !.abortController = "live"], Len(data))
             /\ storage' = set(storage, Models(collection))
             /\ tasks' = Append(Quieten(tasks),
                                [Committing(task, collection) EXCEPT !.path = "memory"])
        ELSE /\ ctl' = [ctl EXCEPT !.abortController = "live"]
             /\ storage' = storage
             /\ tasks' = Append(Quieten(tasks),
                                [task EXCEPT !.pc = "get", !.fromStorage = get(storage),
                                             !.gets = @ + 1])
  /\ awaiting' = Append(awaiting, nextId)
  /\ nextId' = nextId + 1
  /\ UNCHANGED <<collection, subscribers, clock, col, last, txvars, mutvars, wsvars>>

\* Controller.initialise(where) called directly
initialise(where) ==
  /\ Start(where, FALSE)
  /\ ev' = Event("initialise", tasks'[Len(tasks')], <<>>, <<>>)
  /\ UNCHANGED initialisePromises

\* (mutant) initialiseOnce that does not remember the promise
initialiseOnceUncached ==
  /\ Start(WNone, TRUE)
  /\ ev' = Event("initialiseOnce", tasks'[Len(tasks')], <<>>, <<>>)
  /\ UNCHANGED initialisePromises

\* ObjectStore.initialiseOnce(name): no promise cached, initialise() is started
initialiseOnce ==
  /\ initialisePromises = 0
  /\ Start(WNone, TRUE)
  /\ ev' = Event("initialiseOnce", tasks'[Len(tasks')], <<>>, <<>>)
  /\ initialisePromises' = nextId

\* ObjectStore.initialiseOnce(name): the cached promise is returned
initialiseOnceCached ==
  /\ initialisePromises # 0
  /\ ev' = Event("cached", TaskOf(initialisePromises), <<>>, <<>>)
  /\ UNCHANGED <<collection, storage, subscribers, ctl, tasks, awaiting, nextId,
                 initialisePromises, clock, col, last, txvars, mutvars, wsvars>>

\* ObjectStore.initialise(): controller.initialise() is called for the
\* registered controller; initialisePromises is neither read nor written
storeInitialise ==
  /\ Start(WNone, FALSE)
  /\ ev' = Event("storeInitialise", tasks'[Len(tasks')], <<>>, <<>>)
  /\ UNCHANGED initialisePromises

\* initialise after the await of storageManager.get: hydrate from the persisted
\* snapshot through a scratch Collection, or go on to fetch
afterGet ==
  /\ awaiting # <<>>
  /\ TaskOf(awaiting[1]).pc = "get"
  /\ LET task == TaskOf(awaiting[1])
         fromStorage == task.fromStorage
         scratch == insertMany(EmptyCollection, fromStorage, clock)
         data == IF Len(fromStorage) # 0 THEN DataOf(find(scratch, task.where)) ELSE <<>>
     IN IF Len(data) # 0
        THEN /\ collection.counter + Len(data) <= MaxDocs
             /\ collection' = insertMany(collection, data, clock)
             /\ ctl' = updateTotal(ctl, Len(data))
             /\ storage' = set(storage, Models(collection'))
             /\ tasks' = ReplaceTask(tasks, [Committing(task, collection')
                                               EXCEPT !.path = "storage"])
             /\ awaiting' = Append(Tail(awaiting), task.id)
        ELSE /\ ctl' = [ctl EXCEPT !.loading = TRUE]
             /\ tasks' = ReplaceTask(tasks, [task EXCEPT !.pc = "fetch", !.path = "fetch",
                                                         !.fetches = @ + 1])
             /\ awaiting' = Tail(awaiting)
             /\ UNCHANGED <<collection, storage>>
  /\ ev' = Event("afterGet", TaskIn(tasks', awaiting[1]), <<>>, <<>>)
  /\ UNCHANGED <<subscribers, nextId, initialisePromises, clock, col, last, txvars, mutvars, wsvars>>

\* (mutant) the total taken from the number of rows
fetchedTotalCounted(result) == IF result[1] = "rows" THEN Len(result[2]) ELSE 1

\* the total initialise records after a fetch: that of [rows, total], 1 for one row
fetchedTotal(result) == IF result[1] = "rows" THEN result[3] ELSE 1

\* (mutant) initialise without its catch: a failing fetch rejects the call
afterFetchUncaught(id, result) ==
  /\ \E i \in 1..Len(tasks) :
       tasks[i].id = id /\ tasks[i].pc = "fetch" /\ tasks[i].kind = "initialise"
  /\ result[1] = "rows" => collection.counter + Len(result[2]) <= MaxDocs
  /\ result[1] = "row" => collection.counter < MaxDocs
  /\ IF result[1] = "throw"
     THEN /\ ctl' = [ctl EXCEPT !.loading = FALSE]
          /\ tasks' = RemoveTask(tasks, id)
          /\ ev' = Event("afterFetch",
                         [TaskOf(id) EXCEPT !.fetched = result, !.pc = "done",
                                            !.outcome = "rejected"], <<>>, <<>>)
          /\ initialisePromises' = IF initialisePromises = id THEN 0 ELSE initialisePromises
          /\ UNCHANGED <<collection, storage, awaiting>>
     ELSE /\ collection' = (IF result[1] = "rows"
                            THEN insertMany(collection, result[2], clock)
                            ELSE insertOne(collection, result[2], clock))
          /\ ctl' = [updateTotal(ctl, fetchedTotal(result)) EXCEPT !.loading = FALSE]
          /\ storage' = set(storage, Models(collection'))
          /\ tasks' = ReplaceTask(tasks, Committing([TaskOf(id) EXCEPT !.fetched = result],
                                                    collection'))
          /\ awaiting' = Append(awaiting, id)
          /\ ev' = Event("afterFetch", TaskIn(tasks', id), <<>>, <<>>)
          /\ UNCHANGED initialisePromises
  /\ UNCHANGED <<subscribers, nextId, clock, col, last, txvars, mutvars, wsvars>>

\* initialise after the await of fetch: try, catch and finally, up to the await
\* of the commit in finally
afterFetch(id, result) ==
  /\ \E i \in 1..Len(tasks) :
       tasks[i].id = id /\ tasks[i].pc = "fetch" /\ tasks[i].kind = "initialise"
  /\ result[1] = "rows" => collection.counter + Len(result[2]) <= MaxDocs
  /\ result[1] = "row" => collection.counter < MaxDocs
  /\ collection' = CASE result[1] = "rows" -> insertMany(collection, result[2], clock)
                     [] result[1] = "row" -> insertOne(collection, result[2], clock)
                     [] OTHER -> collection
  /\ ctl' = [(IF result[1] = "throw" THEN [ctl EXCEPT !.error = Thrown]
               ELSE updateTotal(ctl, fetchedTotal(result)))
               EXCEPT !.loading = FALSE]
  /\ storage' = set(storage, Models(collection'))
  /\ tasks' = ReplaceTask(tasks, Committing([TaskOf(id) EXCEPT !.fetched = result],
                                            collection'))
  /\ awaiting' = Append(awaiting, id)
  /\ ev' = Event("afterFetch", TaskIn(tasks', id), <<>>, <<>>)
  /\ UNCHANGED <<subscribers, nextId, initialisePromises, clock, col, last, txvars, mutvars, wsvars>>

\* (mutant) the set issued last completes first
afterSetLatest ==
  /\ awaiting # <<>>
  /\ TaskOf(awaiting[Len(awaiting)]).pc = "set"
  /\ LET task == TaskOf(awaiting[Len(awaiting)])
     IN /\ ev' = Event("notify", [task EXCEPT !.pc = "done", !.outcome = "resolved"],
                       task.models, subscribers)
        /\ tasks' = RemoveTask(tasks, task.id)
        /\ initialisePromises' = IF initialisePromises = task.id THEN 0
                                 ELSE initialisePromises
  /\ awaiting' = SubSeq(awaiting, 1, Len(awaiting) - 1)
  /\ UNCHANGED <<collection, storage, subscribers, ctl, nextId, clock, col, last, txvars, mutvars, wsvars>>

\* publish after the await of storageManager.set: every subscriber is called with
\* the models; the call that committed resolves, and the finally handler of
\* initialiseOnce clears the slot if it still holds this promise
afterSet ==
  /\ awaiting # <<>>
  /\ TaskOf(awaiting[1]).pc = "set"
  /\ LET task == TaskOf(awaiting[1])
     IN /\ ev' = Event("notify", [task EXCEPT !.pc = "done", !.outcome = "resolved"],
                       task.models, subscribers)
        /\ tasks' = RemoveTask(tasks, task.id)
        /\ initialisePromises' = IF initialisePromises = task.id THEN 0
                                 ELSE initialisePromises
  /\ awaiting' = Tail(awaiting)
  /\ UNCHANGED <<collection, storage, subscribers, ctl, nextId, clock, col, last, txvars, mutvars, wsvars>>

\* Controller.commit() called by the application, up to its await
commit ==
  /\ nextId <= MaxCalls
  /\ storage' = set(storage, Models(collection))
  /\ tasks' = Append(Quieten(tasks), Committing(NewTask("commit", WNone, FALSE), collection))
  /\ awaiting' = Append(awaiting, nextId)
  /\ nextId' = nextId + 1
  /\ ev' = Event("commit", tasks'[Len(tasks')], <<>>, <<>>)
  /\ UNCHANGED <<collection, subscribers, ctl, initialisePromises, clock, col, last, txvars, mutvars, wsvars>>

\* StorageManager.delete(name) of the managers that persist
delete(stored) == <<>>

\* (mutant) reset that leaves the collection as it is
resetKeeping ==
  /\ nextId <= MaxCalls
  /\ ctl' = [updateTotal(ctl, 0) EXCEPT !.page = 0, !.limit = InitialLimit,
                                        !.error = "null", !.loading = FALSE]
  /\ storage' = set(delete(storage), Models(collection))
  /\ tasks' = Append(Quieten(tasks),
                     [NewTask("reset", WNone, FALSE) EXCEPT !.pc = "set", !.models = <<>>])
  /\ awaiting' = Append(awaiting, nextId)
  /\ nextId' = nextId + 1
  /\ ev' = Event("reset", tasks'[Len(tasks')], <<>>, <<>>)
  /\ UNCHANGED <<collection, subscribers, initialisePromises, clock, col, last, txvars, mutvars, wsvars>>

\* (mutant) reset that persists the snapshot taken before the collection is
\* cleared
resetPersisting ==
  /\ nextId <= MaxCalls
  /\ collection' = clear(collection)
  /\ ctl' = [updateTotal(ctl, 0) EXCEPT !.page = 0, !.limit = InitialLimit,
                                        !.error = "null", !.loading = FALSE]
  /\ storage' = set(delete(storage), Models(collection))
  /\ tasks' = Append(Quieten(tasks),
                     [NewTask("reset", WNone, FALSE) EXCEPT !.pc = "set", !.models = <<>>])
  /\ awaiting' = Append(awaiting, nextId)
  /\ nextId' = nextId + 1
  /\ ev' = Event("reset", tasks'[Len(tasks')], <<>>, <<>>)
  /\ UNCHANGED <<subscribers, initialisePromises, clock, col, last, txvars, mutvars, wsvars>>

\* Controller.reset(): everything up to the await inside publish([])
reset ==
  /\ nextId <= MaxCalls
  /\ collection' = clear(collection)
  /\ ctl' = [updateTotal(ctl, 0) EXCEPT !.page = 0, !.limit = InitialLimit,
                                        !.error = "null", !.loading = FALSE]
  /\ storage' = set(delete(storage), Models(collection'))
  /\ tasks' = Append(Quieten(tasks),
                     [NewTask("reset", WNone, FALSE) EXCEPT !.pc = "set", !.models = <<>>])
  /\ awaiting' = Append(awaiting, nextId)
  /\ nextId' = nextId + 1
  /\ ev' = Event("reset", tasks'[Len(tasks')], <<>>, <<>>)
  /\ UNCHANGED <<subscribers, initialisePromises, clock, col, last, txvars, mutvars, wsvars>>

\* (mutant) an update that, like initialise, commits what the collection holds
\* and fetches only when it is empty
updateFromMemory(where) ==
  /\ nextId <= MaxCalls
  /\ IF collection.dataMap # <<>>
     THEN /\ storage' = set(storage, Models(collection))
          /\ tasks' = Append(Quieten(tasks),
                             [Committing(NewTask("update", where, FALSE), collection)
                                EXCEPT !.path = "update"])
          /\ awaiting' = Append(awaiting, nextId)
     ELSE /\ tasks' = Append(Quieten(tasks),
                             [NewTask("update", where, FALSE)
                                EXCEPT !.pc = "fetch", !.path = "update", !.fetches = 1])
          /\ UNCHANGED <<storage, awaiting>>
  /\ nextId' = nextId + 1
  /\ ev' = Event("update", tasks'[Len(tasks')], <<>>, <<>>)
  /\ UNCHANGED <<collection, subscribers, ctl, initialisePromises,
                 clock, col, last, txvars, mutvars, wsvars>>

\* Controller.update(where) up to the await of fetch
update(where) ==
  /\ nextId <= MaxCalls
  /\ tasks' = Append(Quieten(tasks),
                     [NewTask("update", where, FALSE)
                        EXCEPT !.pc = "fetch", !.path = "update", !.fetches = 1])
  /\ nextId' = nextId + 1
  /\ ev' = Event("update", tasks'[Len(tasks')], <<>>, <<>>)
  /\ UNCHANGED <<collection, storage, subscribers, ctl, awaiting, initialisePromises,
                 clock, col, last, txvars, mutvars, wsvars>>

\* update after the await of fetch: a failing fetch rejects the call; otherwise
\* the rows are inserted and the commit is awaited
afterUpdateFetch(id, result) ==
  /\ \E i \in 1..Len(tasks) :
       tasks[i].id = id /\ tasks[i].pc = "fetch" /\ tasks[i].kind = "update"
  /\ result[1] = "rows" => collection.counter + Len(result[2]) <= MaxDocs
  /\ result[1] = "row" => collection.counter < MaxDocs
  /\ IF result[1] = "throw"
     THEN /\ tasks' = RemoveTask(tasks, id)
          /\ ev' = Event("afterUpdateFetch",
                         [TaskOf(id) EXCEPT !.fetched = result, !.pc = "done",
                                            !.outcome = "rejected"], <<>>, <<>>)
          /\ UNCHANGED <<collection, storage, ctl, awaiting>>
     ELSE /\ collection' = (IF result[1] = "rows"
                            THEN insertMany(collection, result[2], clock)
                            ELSE insertOne(collection, result[2], clock))
          /\ ctl' = updateTotal(ctl, fetchedTotal(result))
          /\ storage' = set(storage, Models(collection'))
          /\ tasks' = ReplaceTask(tasks, Committing([TaskOf(id) EXCEPT !.fetched = result],
                                                    collection'))
          /\ awaiting' = Append(awaiting, id)
          /\ ev' = Event("afterUpdateFetch", TaskIn(tasks', id), <<>>, <<>>)
  /\ UNCHANGED <<subscribers, nextId, initialisePromises, clock, col, last, txvars, mutvars, wsvars>>

updatePage(c, page) == [c EXCEPT !.page = page]

\* Controller.nextPage(where): updatePage(page + 1), then update(where) up to
\* the await of fetch
nextPage(where) ==
  /\ nextId <= MaxCalls
  /\ ctl' = updatePage(ctl, ctl.page + 1)
  /\ tasks' = Append(Quieten(tasks),
                     [NewTask("update", where, FALSE)
                        EXCEPT !.pc = "fetch", !.path = "update", !.fetches = 1])
  /\ nextId' = nextId + 1
  /\ ev' = Event("nextPage", tasks'[Len(tasks')], <<>>, <<>>)
  /\ UNCHANGED <<collection, storage, subscribers, awaiting, initialisePromises,
                 clock, col, last, txvars, mutvars, wsvars>>

\* Controller.previousPage(where): updatePage(page - 1), then update(where) up
\* to the await of fetch
previousPage(where) ==
  /\ nextId <= MaxCalls
  /\ ctl' = updatePage(ctl, ctl.page - 1)
  /\ tasks' = Append(Quieten(tasks),
                     [NewTask("update", where, FALSE)
                        EXCEPT !.pc = "fetch", !.path = "update", !.fetches = 1])
  /\ nextId' = nextId + 1
  /\ ev' = Event("previousPage", tasks'[Len(tasks')], <<>>, <<>>)
  /\ UNCHANGED <<collection, storage, subscribers, awaiting, initialisePromises,
                 clock, col, last, txvars, mutvars, wsvars>>

\* the application mutates controller.collection (step 1 of the mutation pattern)
mutate(r) ==
  /\ collection.counter < MaxDocs
  /\ collection' = insertOne(collection, r, clock)
  /\ tasks' = Quieten(tasks)
  /\ ev' = Event("mutate", NoTask, <<>>, <<>>)
  /\ UNCHANGED <<storage, subscribers, ctl, awaiting, nextId, initialisePromises,
                 clock, col, last, txvars, mutvars, wsvars>>

\* (mutant) subscribers kept as a list: a callback added twice is held twice
subscribeAgain(onChange) ==
  /\ subscribers' = Append(subscribers, onChange)
  /\ ev' = Event("subscribe", NoTask, <<>>, <<>>)
  /\ UNCHANGED <<collection, storage, ctl, tasks, awaiting, nextId, initialisePromises,
                 clock, col, last, txvars, mutvars, wsvars>>

\* Controller.subscribe(onChange): Set.add
subscribe(onChange) ==
  /\ subscribers' = IF onChange \in Range(subscribers) THEN subscribers
                    ELSE Append(subscribers, onChange)
  /\ ev' = Event("subscribe", NoTask, <<>>, <<>>)
  /\ UNCHANGED <<collection, storage, ctl, tasks, awaiting, nextId, initialisePromises,
                 clock, col, last, txvars, mutvars, wsvars>>

\* (mutant) the returned function removes nothing
unsubscribeNothing(onChange) ==
  /\ onChange \in Range(subscribers)
  /\ ev' = Event("unsubscribe", NoTask, <<>>, <<>>)
  /\ UNCHANGED <<collection, storage, subscribers, ctl, tasks, awaiting, nextId,
                 initialisePromises, clock, col, last, txvars, mutvars, wsvars>>

\* the function subscribe(onChange) returned: Set.delete
unsubscribe(onChange) ==
  /\ onChange \in Range(subscribers)
  /\ subscribers' = SelectSeq(subscribers, LAMBDA cb : cb # onChange)
  /\ ev' = Event("unsubscribe", NoTask, <<>>, <<>>)
  /\ UNCHANGED <<collection, storage, ctl, tasks, awaiting, nextId, initialisePromises,
                 clock, col, last, txvars, mutvars, wsvars>>

\* a Controller constructed over a store that may hold an earlier session's snapshot
Init ==
  /\ col = EmptyCollection
  /\ clock = 0
  /\ last = Op("new", 0, TRUE)
  /\ collection = EmptyCollection
  /\ storage \in PersistedSnapshots
  /\ subscribers = <<>>
  /\ ctl = NewController
  /\ tasks = <<>>
  /\ awaiting = <<>>
  /\ nextId = 1
  /\ initialisePromises = 0
  /\ ev = Event("new", NoTask, <<>>, <<>>)
  /\ TxIdle
  /\ MutIdle
  /\ WsIdle

Next ==
  \/ \E where \in WhereArgs : initialise(where)
  \/ initialiseOnce
  \/ initialiseOnceCached
  \/ afterGet
  \/ \E id \in 1..MaxCalls : \E result \in FetchResults : afterFetch(id, result)
  \/ afterSet
  \/ commit
  \/ \E r \in Items : mutate(r)
  \/ \E s \in 1..MaxSubscribers : subscribe(s)
  \/ \E s \in 1..MaxSubscribers : unsubscribe(s)

\* hydration: initialise, initialiseOnce and commit over a store that may hold a
\* snapshot, observed by MaxSubscribers callbacks
Spec == Init /\ [][Next]_vars

\* a Controller constructed over an empty store
NotifyInit ==
  /\ col = EmptyCollection
  /\ clock = 0
  /\ last = Op("new", 0, TRUE)
  /\ collection = EmptyCollection
  /\ storage = <<>>
  /\ subscribers = <<>>
  /\ ctl = NewController
  /\ tasks = <<>>
  /\ awaiting = <<>>
  /\ nextId = 1
  /\ initialisePromises = 0
  /\ ev = Event("new", NoTask, <<>>, <<>>)
  /\ TxIdle
  /\ MutIdle
  /\ WsIdle

NotifyNext ==
  \/ \E where \in WhereArgs : initialise(where)
  \/ afterGet
  \/ \E id \in 1..MaxCalls : \E result \in FetchResults : afterFetch(id, result)
  \/ afterSet
  \/ commit
  \/ reset
  \/ \E where \in WhereArgs : update(where)
  \/ \E id \in 1..MaxCalls : \E result \in FetchResults : afterUpdateFetch(id, result)
  \/ \E r \in Items : mutate(r)
  \/ \E cb \in 1..MaxCallbacks : subscribe(cb)
  \/ \E cb \in 1..MaxCallbacks : unsubscribe(cb)

\* publishing: every call that commits (initialise, update, commit, reset),
\* observed by MaxCallbacks callbacks that come and go
SpecNotify == NotifyInit /\ [][NotifyNext]_vars

\* abort(): the installed handle, if any, is aborted and the field is set to
\* null; ev.handle tells what became of the handle installed before the call
abort ==
  /\ ctl' = IF ctl.abortController # "null"
            THEN [ctl EXCEPT !.abortController = "null"]
            ELSE ctl
  /\ ev' = Event("abort", NoTask, <<>>, <<>>)
             @@ [handle |-> IF ctl.abortController # "null" THEN "aborted" ELSE "none"]
  /\ UNCHANGED <<collection, storage, subscribers, tasks, awaiting, nextId,
                 initialisePromises, clock, col, last, txvars, mutvars, wsvars>>

AbortNext ==
  \/ \E where \in WhereArgs : initialise(where)
  \/ afterGet
  \/ \E id \in 1..MaxCalls : \E result \in FetchResults : afterFetch(id, result)
  \/ afterSet
  \/ abort

\* initialise and abort: the handle initialise installs and what abort()
\* leaves of it
SpecAbort == NotifyInit /\ [][AbortNext]_vars

ResetNext ==
  \/ \E where \in WhereArgs : initialise(where)
  \/ afterGet
  \/ \E id \in 1..MaxCalls : \E result \in FetchResults : afterFetch(id, result)
  \/ afterSet
  \/ commit
  \/ reset
  \/ \E r \in Items : mutate(r)

\* reset() among initialise and commit calls in flight, over a store that may
\* hold a snapshot
SpecReset == Init /\ [][ResetNext]_vars

CommitNext ==
  \/ commit
  \/ afterSet
  \/ \E r \in Items : mutate(r)
  \/ \E cb \in 1..MaxCallbacks : subscribe(cb)
  \/ \E cb \in 1..MaxCallbacks : unsubscribe(cb)

\* the mutation pattern: the caller changes the collection and commits, with
\* commits overlapping
SpecCommit == Init /\ [][CommitNext]_vars

ObjectStoreNext ==
  \/ initialiseOnce
  \/ initialiseOnceCached
  \/ storeInitialise
  \/ afterGet
  \/ \E id \in 1..MaxCalls : \E result \in FetchResults : afterFetch(id, result)
  \/ afterSet

\* a controller initialised through its ObjectStore only
SpecObjectStore == Init /\ [][ObjectStoreNext]_vars

(***************************************************************************)
(* WebsocketInvalidator: one action per method call, socket event or timer. *)
(***************************************************************************)
\* connect(): a new WebSocket is created and stored in this.socket
connect(inv, socks) == [inv EXCEPT !.socket = Len(socks) + 1]

\* scheduleReconnect(): a timer is set unless one is pending
scheduleReconnect(inv) == [inv EXCEPT !.reconnectTimer = TRUE]

\* socket.close(): the closing handshake starts unless the socket is closing or closed
close(state) == IF state \in {"connecting", "open"} THEN "closing" ELSE state

WsInit ==
  /\ col = EmptyCollection
  /\ clock = 0
  /\ last = Op("new", 0, TRUE)
  /\ CtlIdle
  /\ TxIdle
  /\ MutIdle
  /\ invalidator \in {[NewInvalidator EXCEPT !.reconnect = b] : b \in BOOLEAN}
  /\ sockets = <<>>
  /\ invoked = 0

registerInvalidation ==
  /\ IF invalidator.socket # 0
     THEN UNCHANGED <<invalidator, sockets>>
     ELSE /\ Len(sockets) < MaxSockets
          /\ invalidator' = connect([invalidator EXCEPT !.active = TRUE], sockets)
          /\ sockets' = Append(sockets, "connecting")
  /\ invoked' = 0
  /\ UNCHANGED <<cvars, ctlvars, txvars, mutvars>>

unregisterInvalidation ==
  /\ invalidator' = [invalidator EXCEPT !.active = FALSE, !.reconnectTimer = FALSE,
                                        !.socket = 0]
  /\ sockets' = IF invalidator.socket # 0
                THEN [sockets EXCEPT ![invalidator.socket] = close(@)]
                ELSE sockets
  /\ invoked' = 0
  /\ UNCHANGED <<cvars, ctlvars, txvars, mutvars>>

\* the "open" event of WebSocket i
socketOpen(i) ==
  /\ i \in 1..Len(sockets)
  /\ sockets[i] = "connecting"
  /\ sockets' = [sockets EXCEPT ![i] = "open"]
  /\ invoked' = 0
  /\ UNCHANGED <<invalidator, cvars, ctlvars, txvars, mutvars>>

\* the server or the network ends the connection of WebSocket i; its close
\* event is yet to be delivered
connectionLost(i) ==
  /\ i \in 1..Len(sockets)
  /\ sockets[i] \in {"connecting", "open"}
  /\ sockets' = [sockets EXCEPT ![i] = "closing"]
  /\ invoked' = 0
  /\ UNCHANGED <<invalidator, cvars, ctlvars, txvars, mutvars>>

\* the "close" event of WebSocket i: this.socket = null, and a reconnect is
\* scheduled if reconnect and active
socketClose(i) ==
  /\ i \in 1..Len(sockets)
  /\ sockets[i] = "closing"
  /\ sockets' = [sockets EXCEPT ![i] = "closed"]
  /\ invalidator' = LET inv == [invalidator EXCEPT !.socket = 0]
                    IN IF inv.reconnect /\ inv.active /\ ~inv.reconnectTimer
                       THEN scheduleReconnect(inv)
                       ELSE inv
  /\ invoked' = 0
  /\ UNCHANGED <<cvars, ctlvars, txvars, mutvars>>

\* the reconnect timer fires
reconnectTimeout ==
  /\ invalidator.reconnectTimer
  /\ IF invalidator.active /\ invalidator.socket = 0
     THEN /\ Len(sockets) < MaxSockets
          /\ invalidator' = connect([invalidator EXCEPT !.reconnectTimer = FALSE], sockets)
          /\ sockets' = Append(sockets, "connecting")
     ELSE /\ invalidator' = [invalidator EXCEPT !.reconnectTimer = FALSE]
          /\ UNCHANGED sockets
  /\ invoked' = 0
  /\ UNCHANGED <<cvars, ctlvars, txvars, mutvars>>

\* the server sends one message: the "message" event of every open WebSocket
\* calls the bound invalidate callback
serverMessage ==
  /\ \E i \in 1..Len(sockets) : sockets[i] = "open"
  /\ invoked' = Cardinality({i \in 1..Len(sockets) : sockets[i] = "open"})
  /\ UNCHANGED <<invalidator, sockets, cvars, ctlvars, txvars, mutvars>>

WebsocketNext ==
  \/ registerInvalidation
  \/ unregisterInvalidation
  \/ \E i \in 1..MaxSockets : socketOpen(i)
  \/ \E i \in 1..MaxSockets : connectionLost(i)
  \/ \E i \in 1..MaxSockets : socketClose(i)
  \/ reconnectTimeout
  \/ serverMessage

SpecWebsocket == WsInit /\ [][WebsocketNext]_vars

RefetchNext ==
  \/ \E where \in WhereArgs : update(where)
  \/ \E where \in WhereArgs : nextPage(where)
  \/ \E where \in WhereArgs : previousPage(where)
  \/ \E id \in 1..MaxCalls : \E result \in FetchResults : afterUpdateFetch(id, result)
  \/ afterSet
  \/ \E r \in Items : mutate(r)

\* refetching: update, nextPage and previousPage over a collection the caller
\* fills and a store that may hold a snapshot
SpecRefetch == Init /\ [][RefetchNext]_vars


(***************************************************************************)
(* Claims about the Collection.                                            *)
(***************************************************************************)
Single(f, v) == [k \in {f} |-> v]

\* r's fields all occur in payload d with r's values
Agrees(d, r) == \A k \in DOMAIN r : k \in DOMAIN d /\ d[k] = r[k]

StrictlyExtends(d, r) == Agrees(d, r) /\ DOMAIN d # DOMAIN r

\* C7: after any sequence of insertOne, insertMany, findOneAndUpdate and
\* deleteOne, for every stored document d and every field f of its payload,
\* find({[f]: d[f]}) includes d.
C7_IndexConsistency ==
  \A p \in 1..Len(col.dataMap) :
    \A f \in DOMAIN col.dataMap[p].doc.data :
      p \in Range(findPos(col, WObj(Single(f, col.dataMap[p].doc.data[f]))))

\* two documents share a field value after one of them was updated, so the
\* index list consulted by find holds more than one identifier
C7_Witness ==
  /\ last.op = "findOneAndUpdate" /\ last.ok
  /\ \E p, q \in 1..Len(col.dataMap) :
       /\ p # q
       /\ "id" \in DOMAIN col.dataMap[p].doc.data
       /\ "id" \in DOMAIN col.dataMap[q].doc.data
       /\ col.dataMap[p].doc.data["id"] = col.dataMap[q].doc.data["id"]
       /\ Len(findPos(col, WObj(Single("id", col.dataMap[p].doc.data["id"])))) >= 2

\* C8 (as claimed): in every reachable state, deleteOne(id) for the identifier of
\* a stored document returns true and the document is gone from find()/findOne()
\* afterwards; deleteOne of an identifier that is not stored returns false and
\* changes neither the store nor the index.
C8_DeleteCorrect ==
  [][last'.op = "deleteOne" => \A id \in Ids :
       CDeleteOne(WStr(id)) =>
         IF MapPos(col.dataMap, id) > 0
         THEN /\ last'.ok
              /\ MapPos(col'.dataMap, id) = 0
              /\ findOne(col', WStr(id)) = 0
              /\ Len(find(col', WNone)) = Len(find(col, WNone)) - 1
         ELSE /\ ~last'.ok
              /\ col' = col]_vars

\* C9 (as claimed): immediately after insertOne(r), find({...r}) contains the
\* returned document, whose payload equals r, and findOne(doc._id) and
\* findOne({...r}) both return a document with payload r.
C9_InsertFindOriginal ==
  [][last'.op = "insertOne" => \A r \in Payloads :
       CInsertOne(r) =>
         LET d == last'.pos
             q == findOne(col', WObj(r))
         IN /\ d > 0
            /\ d \in Range(findPos(col', WObj(r)))
            /\ toData(col'.dataMap[d].doc) = r
            /\ findOne(col', WStr(col'.dataMap[d].doc._id)) = d
            /\ q > 0
            /\ toData(col'.dataMap[q].doc) = r]_vars

\* C9 (amended): immediately after insertOne(r), find({...r}) contains the
\* returned document, whose payload equals r; findOne(doc._id) returns it;
\* findOne({...r}) returns a stored document whose payload has r's value for
\* every field of r, and whose payload is exactly r unless some stored
\* document's payload strictly extends r.
C9_InsertFind ==
  [][last'.op = "insertOne" => \A r \in Payloads :
       CInsertOne(r) =>
         LET d == last'.pos
             q == findOne(col', WObj(r))
         IN /\ d > 0
            /\ d \in Range(findPos(col', WObj(r)))
            /\ toData(col'.dataMap[d].doc) = r
            /\ findOne(col', WStr(col'.dataMap[d].doc._id)) = d
            /\ q > 0
            /\ Agrees(toData(col'.dataMap[q].doc), r)
            /\ (\A p \in 1..Len(col'.dataMap) :
                  ~StrictlyExtends(toData(col'.dataMap[p].doc), r))
               => toData(col'.dataMap[q].doc) = r]_vars

\* insertOne(r) has just returned a document while an earlier document's
\* payload strictly extends r, and findOne({...r}) returns that earlier one
C9_Witness ==
  /\ last.op = "insertOne"
  /\ last.pos > 1
  /\ LET r == toData(col.dataMap[last.pos].doc)
         q == findOne(col, WObj(r))
     IN /\ q # last.pos
        /\ StrictlyExtends(toData(col.dataMap[q].doc), r)

\* C10: for a Collection c with N documents, other.hydrate(c.serialize()) and
\* Collection.deserialize(name, c.serialize()) both yield a collection whose
\* find() has N documents with the payloads of c's documents in the same
\* order, and whose counter equals c's counter.
C10_RoundTrip ==
  [][(last'.op \in {"hydrate", "deserialize"} /\ (CHydrate \/ CDeserialize)) =>
       /\ Len(find(col', WNone)) = Len(find(col, WNone))
       /\ \A i \in 1..Len(find(col, WNone)) :
            toData(find(col', WNone)[i]) = toData(find(col, WNone)[i])
       /\ col'.counter = col.counter]_vars

\* a collection of two or more documents, one of them deleted before, has been
\* restored from its own serialisation at a later second
C10_Witness ==
  /\ last.op \in {"hydrate", "deserialize"}
  /\ Len(col.dataMap) >= 2
  /\ col.counter > Len(col.dataMap)
  /\ clock > 0

(***************************************************************************)
(* Claims about the Controller and the ObjectStore.                        *)
(***************************************************************************)
\* the sets issued and not yet completed, oldest first
PendingSets == SelectSeq(awaiting, LAMBDA id : TaskOf(id).pc = "set")

Payload(c) == [i \in 1..Len(c.dataMap) |-> c.dataMap[i].doc.data]

MatchesWhere(m, where) ==
  CASE where[1] = "none" -> TRUE
    [] where[1] = "str" -> m["_id"] = where[2]
    [] OTHER -> \A k \in DOMAIN where[2] : k \in DOMAIN m /\ m[k] = where[2][k]

\* C3: initialise(where) that found nothing in memory and read a snapshot holding
\* a record matching where does not fetch: it inserts exactly the matching
\* persisted records, sets total to their number, and commits
C3_StorageHit ==
  [][(ev'.type = "afterGet"
        /\ SelectSeq(ev'.task.fromStorage,
                     LAMBDA m : MatchesWhere(m, ev'.task.where)) # <<>>)
       => LET matching == SelectSeq(ev'.task.fromStorage,
                                    LAMBDA m : MatchesWhere(m, ev'.task.where))
          IN /\ ev'.task.fetches = 0
             /\ ev'.task.pc = "set"
             /\ ev'.task.commits = 1
             /\ Payload(collection') = Payload(collection) \o matching
             /\ ctl'.total = Len(matching)]_vars

\* C4: initialise() called with memory and store both empty fetches exactly
\* once; when nothing else ran meanwhile and the fetch returned rows, at the
\* moment it resolves the collection holds those rows in order, total is the
\* fetched total (1 for a single row), loading is false, and the subscribers
\* have been called with one model carrying _id per row
C4_FetchPopulates ==
  (ev.type = "notify" /\ ev.task.kind = "initialise" /\ ev.task.startEmpty) =>
     /\ ev.task.fetches = 1
     /\ ev.task.path = "fetch"
     /\ (ev.task.quiet /\ ev.task.fetched[1] # "throw") =>
          LET rows == IF ev.task.fetched[1] = "rows" THEN ev.task.fetched[2]
                      ELSE <<ev.task.fetched[2]>>
          IN /\ Payload(collection) = rows
             /\ ctl.total = (IF ev.task.fetched[1] = "rows" THEN ev.task.fetched[3] ELSE 1)
             /\ ~ctl.loading
             /\ ev.to = subscribers
             /\ Len(ev.snapshot) = Len(rows)
             /\ \A i \in 1..Len(rows) :
                  /\ "_id" \in DOMAIN ev.snapshot[i]
                  /\ ev.snapshot[i]["_id"] = collection.dataMap[i].doc._id
                  /\ \A k \in DOMAIN rows[i] : ev.snapshot[i][k] = rows[i][k]

C4_Witness ==
  /\ ev.type = "notify"
  /\ ev.task.kind = "initialise"
  /\ ev.task.startEmpty
  /\ ev.task.quiet
  /\ ev.task.fetched[1] = "rows"
  /\ Len(ev.task.fetched[2]) = 2
  /\ ev.task.fetched[2][1] # ev.task.fetched[2][2]
  /\ ev.task.fetched[3] = MaxTotal
  /\ ev.to # <<>>

\* the initialise() calls started through initialiseOnce and not yet settled
OnceInFlight(ts) == {i \in 1..Len(ts) : ts[i].once}

C6_FetchThrows ==
  [][/\ (ev'.type = "afterFetch" /\ ev'.task.fetched[1] = "throw")
        => /\ ctl'.error = Thrown
           /\ ~ctl'.loading
           /\ collection' = collection
           /\ ev'.task.pc = "set"
           /\ ev'.task.outcome = "pending"
           /\ ev'.task.models = Models(collection)
           /\ ev'.task.id \in Range(awaiting')
     /\ (ev'.type = "notify" /\ ev'.task.path = "fetch" /\ ev'.task.fetched[1] = "throw")
        => /\ ev'.task.outcome = "resolved"
           /\ ev'.task.commits = 1
           /\ ev'.to = subscribers]_vars

C6_Witness ==
  /\ ev.type = "notify"
  /\ ev.task.path = "fetch"
  /\ ev.task.fetched = <<"throw">>
  /\ ev.task.outcome = "resolved"
  /\ ev.to # <<>>
  /\ ctl.error = Thrown
  /\ ~ctl.loading

(***************************************************************************)
(* Claims about reset, the subscribers and the snapshot published.         *)
(***************************************************************************)
\* the step in which the publish of a call completes and the subscribers are called
Notifies == ev'.type = "notify" /\ tasks' # tasks

\* how many times callback cb occurs in the list of calls made
Calls(to, cb) == Cardinality({i \in 1..Len(to) : to[i] = cb})

\* C11: reset() leaves the collection empty, total 0, error null and loading
\* false, and its notification calls every subscribed callback with the empty array
C11_Reset ==
  [][/\ (ev'.type = "reset" /\ nextId' = nextId + 1)
        => /\ find(collection', WNone) = <<>>
           /\ ctl'.total = 0
           /\ ctl'.error = "null"
           /\ ~ctl'.loading
           /\ ev'.task.pc = "set"
           /\ ev'.task.models = <<>>
           /\ ev'.task.id \in Range(awaiting')
           /\ subscribers' = subscribers
     /\ (Notifies /\ ev'.task.kind = "reset")
        => /\ ev'.snapshot = <<>>
           /\ \A cb \in Range(subscribers) : Calls(ev'.to, cb) = 1]_vars

\* the notification of a reset() issued over a non-empty collection or store
\* has reached two callbacks
C11_Witness ==
  /\ ev.type = "notify"
  /\ ev.task.kind = "reset"
  /\ ~ev.task.startEmpty
  /\ Len(ev.to) = 2
  /\ collection.dataMap = <<>>
  /\ ctl.total = 0

\* C12: when a commit completes, every subscribed callback is called exactly
\* once with the snapshot of that commit, and the commit notifies no second
\* time; subscribing a callback that is already subscribed changes nothing
C12_ExactlyOnce ==
  [][/\ Notifies
        => /\ ev'.snapshot = TaskOf(awaiting[1]).models
           /\ ev'.task.id = awaiting[1]
           /\ \A cb \in 1..MaxCallbacks :
                Calls(ev'.to, cb) = (IF cb \in Range(subscribers) THEN 1 ELSE 0)
           /\ \A i \in 1..Len(tasks') : tasks'[i].id # ev'.task.id
           /\ ev'.task.id \notin Range(awaiting')
     /\ \A cb \in 1..MaxCallbacks :
          (subscribe(cb) /\ cb \in Range(subscribers)) => subscribers' = subscribers
     /\ \A cb \in 1..MaxCallbacks : Calls(subscribers', cb) <= 1]_vars

\* a commit has called two callbacks, the first of them subscribed twice
C12_Witness ==
  /\ ev.type = "notify"
  /\ ev.task.kind = "commit"
  /\ Len(ev.snapshot) >= 1
  /\ ev.to = <<1, 2>>
  /\ subscribers = <<1, 2>>

\* C13: the function subscribe(cb) returned removes cb and nothing else; a
\* callback that is not subscribed is called by no notification of a commit or
\* a reset, and the callbacks still subscribed are all called
C13_Unsubscribed ==
  [][/\ \A cb \in 1..MaxCallbacks :
          unsubscribe(cb)
            => /\ cb \notin Range(subscribers')
               /\ subscribers' = SelectSeq(subscribers, LAMBDA other : other # cb)
     /\ Notifies
        => /\ \A cb \in 1..MaxCallbacks :
                cb \notin Range(subscribers) => cb \notin Range(ev'.to)
           /\ \A cb \in Range(subscribers) : cb \in Range(ev'.to)]_vars

\* a reset has notified callback 2 alone, callback 1 having unsubscribed
C13_Witness ==
  /\ ev.type = "notify"
  /\ ev.task.kind = "reset"
  /\ ev.to = <<2>>
  /\ subscribers = <<2>>

\* the calls that reached the await of storageManager.set in this step
Committed == {i \in 1..Len(tasks') :
                /\ tasks'[i].pc = "set"
                /\ \A j \in 1..Len(tasks) :
                     tasks[j].id = tasks'[i].id => tasks[j].pc # "set"}

\* C14: every commit persists and later delivers the model of every document
\* in the collection at the time of the commit, in store order, whatever where
\* the committing initialise or update was called with
C14_FullSnapshot ==
  [][/\ \A i \in Committed :
          /\ Len(tasks'[i].models) = Len(find(collection', WNone))
          /\ \A k \in 1..Len(tasks'[i].models) :
               tasks'[i].models[k] = toModel(find(collection', WNone)[k])
          /\ get(storage') = tasks'[i].models
     /\ Notifies => ev'.snapshot = TaskOf(awaiting[1]).models]_vars

\* an initialise(where) served from memory has delivered two documents of which
\* its where matches one
C14_Witness ==
  /\ ev.type = "notify"
  /\ ev.task.kind = "initialise"
  /\ ev.task.path = "memory"
  /\ ev.task.where[1] = "obj"
  /\ Len(ev.snapshot) = 2
  /\ ctl.total = 1
  /\ ev.to # <<>>

(***************************************************************************)
(* Claims about deserialize and hydrate over malformed texts.              *)
(***************************************************************************)
\* invalid JSON, a JSON value that is not an object, documents missing or not
\* an array, or an entry of documents that is not an object
Malformed(s) ==
  \/ s[1] # "obj"
  \/ s[3][1] # "array"
  \/ \E i \in 1..Len(s[3][2]) : s[3][2][i][1] # "obj"

\* C15: Collection.deserialize returns an empty collection for every malformed text
C15_DeserializeMalformed ==
  (last.op = "deserializeFrom" /\ Malformed(last.text)) => col.dataMap = <<>>

\* C16: hydrate leaves the collection empty for every malformed text
C16_HydrateMalformed ==
  (last.op = "hydrateFrom" /\ Malformed(last.text)) => col.dataMap = <<>>

(***************************************************************************)
(* Claims about Collection.hash.                                           *)
(***************************************************************************)
\* a and b hold the same key/value pairs, nested objects compared the same way
RECURSIVE SamePairs(_, _)
SamePairs(a, b) ==
  IF a[1] = "num" \/ b[1] = "num" THEN a = b
  ELSE /\ Range(ObjectKeys(a)) = Range(ObjectKeys(b))
       /\ \A k \in Range(ObjectKeys(a)) : SamePairs(ValueAt(a, k), ValueAt(b, k))

\* C17: Collection.hash gives two plain objects with the same key/value pairs
\* the same hash, whatever the insertion order of their keys, nested objects included
C17_HashKeyOrder ==
  (last.op = "hash" /\ SamePairs(last.a, last.b)) => last.ha = last.hb

\* two objects with the same pairs were hashed whose keys, and the keys of
\* whose nested objects, were inserted in opposite orders
C17_Witness ==
  /\ last.op = "hash"
  /\ SamePairs(last.a, last.b)
  /\ ObjectKeys(last.a) = <<"id", "x">>
  /\ ObjectKeys(last.b) = <<"x", "id">>
  /\ ValueAt(last.a, "x")[1] = "object"
  /\ ObjectKeys(ValueAt(last.a, "x")) = <<"x", "id">>
  /\ ObjectKeys(ValueAt(last.b, "x")) = <<"id", "x">>
  /\ last.ha = last.hb

(***************************************************************************)
(* Claims about Transactions and withMutation.                             *)
(***************************************************************************)
\* the payloads of the documents of c, in store order
PayloadsOf(c) == [i \in 1..Len(c.dataMap) |-> toData(c.dataMap[i].doc)]

\* the payloads and the counter in the text serialize() produced at add time
StoredPayloads(stored) ==
  [i \in 1..Len(stored[2][3][2]) |-> Rest(stored[2][3][2][i][2])]

\* C18: rollback(t, name) returns a collection with the payloads (in order)
\* and the counter the collection had when add returned t, and deletes entry t
C18_Rollback ==
  last.op = "rollback"
    => /\ PayloadsOf(last.result) = StoredPayloads(last.stored)
       /\ last.result.counter = CounterOf(last.stored[2])
       /\ last.name \notin DOMAIN localStorage

\* C19: loading is true exactly while some invocation of the method is running
C19_Loading ==
  wrapped.loading = (\E i \in 1..Len(invocations) : invocations[i] = "running")

(***************************************************************************)
(* Claims about the entries of the index.                                  *)
(***************************************************************************)
\* how many times identifier id occurs in the list under key (0 without entry)
Occurrences(ix, key, id) ==
  IF key \notin DOMAIN ix THEN 0
  ELSE Cardinality({i \in 1..Len(ix[key]) : ix[key][i] = id})

\* every payload field of every stored document has its entry, holding the
\* identifier once, and no list holds an identifier twice
FieldEntries ==
  /\ \A p \in 1..Len(col.dataMap) :
       \A f \in DOMAIN col.dataMap[p].doc.data :
         Occurrences(col.indexes, hashOf(Single(f, col.dataMap[p].doc.data[f])),
                     col.dataMap[p].doc._id) = 1
  /\ \A key \in DOMAIN col.indexes : \A id \in Range(col.indexes[key]) :
       Occurrences(col.indexes, key, id) = 1

\* C20 (as claimed): the entries of FieldEntries, and for every stored document
\* an entry keyed by the hash of its payload that holds the identifier once
C20_IndexEntriesOriginal ==
  /\ FieldEntries
  /\ \A p \in 1..Len(col.dataMap) :
       Occurrences(col.indexes, hashOf(toData(col.dataMap[p].doc)),
                   col.dataMap[p].doc._id) = 1

\* C20 (amended): the entries of FieldEntries, and for every stored document an
\* entry keyed by the hash of its model, the payload together with _id, that
\* holds the identifier once
C20_IndexEntries ==
  /\ FieldEntries
  /\ \A p \in 1..Len(col.dataMap) :
       Occurrences(col.indexes, hashOf(toModel(col.dataMap[p].doc)),
                   col.dataMap[p].doc._id) = 1

\* findOneAndUpdate found nothing and inserted a document of two fields, which
\* it indexed a second time; another document shares the value of field "id"
C20_Witness ==
  /\ last.op = "findOneAndUpdate" /\ ~last.ok /\ last.pos > 0
  /\ DOMAIN col.dataMap[last.pos].doc.data = {"id", "x"}
  /\ Len(col.indexes[hashOf(Single("id", col.dataMap[last.pos].doc.data["id"]))]) >= 2
  /\ hashOf(toData(col.dataMap[last.pos].doc)) \notin DOMAIN col.indexes

(***************************************************************************)
(* Claims about the keys of the primary store and about find.              *)
(***************************************************************************)
\* C21: every key of dataMap is the _id of the document stored under it, so
\* findOne(d._id) returns d and d.toModel()._id is d._id, for every stored d
C21_KeysAreIds ==
  \A p \in 1..Len(col.dataMap) :
    /\ col.dataMap[p].key = col.dataMap[p].doc._id
    /\ findOne(col, WStr(col.dataMap[p].doc._id)) = p
    /\ toModel(col.dataMap[p].doc)["_id"] = col.dataMap[p].doc._id

\* C22: for every non-empty partial object where, find(where) returns exactly
\* the stored documents a full linear scan returns
C22_FindIsScan ==
  \A w \in Payloads :
    DOMAIN w # {} => Range(findPos(col, WObj(w))) = Range(ScanPos(col, w))

\* C23: findOne(where) and find(where) return no document whose value for a
\* field named in where differs from where's value
C23_Verified ==
  last.op \in {"find", "findOne"}
    => \A i \in 1..Len(last.found) : \A f \in DOMAIN last.where[2] :
         /\ f \in DOMAIN col.dataMap[last.found[i]].doc.data
         /\ col.dataMap[last.found[i]].doc.data[f] = last.where[2][f]

(***************************************************************************)
(* Claims about findOneAndUpdate and findOne.                              *)
(***************************************************************************)
\* no stored document matches where: none is stored under or carries the
\* identifier, none has the fields of the partial object
NoneMatches(c, where) ==
  IF where[1] = "str"
  THEN \A p \in 1..Len(c.dataMap) : c.dataMap[p].key # where[2] /\ c.dataMap[p].doc._id # where[2]
  ELSE ScanPos(c, where[2]) = <<>>

\* C24: when nothing matches, findOneAndUpdate with a non-empty update adds one
\* document whose payload is update alone, after the others, and returns it;
\* with update absent it returns what findOne returns and changes nothing
C24_Upsert ==
  [][last'.op = "findOneAndUpdate" =>
       /\ last'.update = <<>> => (col' = col /\ last'.pos = findOne(col, last'.where))
       /\ (last'.update # <<>> /\ DOMAIN last'.update[1] # {} /\ NoneMatches(col, last'.where))
            => /\ Len(find(col', WNone)) = Len(find(col, WNone)) + 1
               /\ \A p \in 1..Len(col.dataMap) : col'.dataMap[p] = col.dataMap[p]
               /\ last'.pos = Len(col'.dataMap)
               /\ toData(col'.dataMap[last'.pos].doc) = last'.update[1]
               /\ col'.counter = col.counter + 1]_vars

\* findOneAndUpdate({id: 2}, {x: 1}) found nothing in a collection of one
\* document and added a second whose payload is {x: 1}
C24_Witness ==
  /\ last.op = "findOneAndUpdate" /\ ~last.ok
  /\ last.where = WObj([id |-> 2])
  /\ last.update = <<[x |-> 1]>>
  /\ last.pos = 2
  /\ Len(col.dataMap) = 2
  /\ col.dataMap[2].doc.data = [x |-> 1]

\* the fields whose value findOneAndUpdate changed in the document at position p
Changed(c, p, fields) ==
  {f \in DOMAIN fields : f \notin DOMAIN c.dataMap[p].doc.data
                         \/ c.dataMap[p].doc.data[f] # fields[f]}

\* the document at position p is as before but for the fields of update
Merged(c, d, p, fields) ==
  /\ Len(d.dataMap) = Len(c.dataMap)
  /\ d.counter = c.counter
  /\ \A q \in 1..Len(c.dataMap) : q # p => d.dataMap[q] = c.dataMap[q]
  /\ d.dataMap[p].key = c.dataMap[p].key
  /\ d.dataMap[p].doc._id = c.dataMap[p].doc._id
  /\ DOMAIN d.dataMap[p].doc.data = DOMAIN c.dataMap[p].doc.data \cup DOMAIN fields
  /\ \A f \in DOMAIN fields : d.dataMap[p].doc.data[f] = fields[f]
  /\ \A f \in DOMAIN c.dataMap[p].doc.data \ DOMAIN fields :
       d.dataMap[p].doc.data[f] = c.dataMap[p].doc.data[f]

\* C25: when findOneAndUpdate finds a document it keeps the document's
\* identifier and position and the size of the collection, sets the fields of
\* update and nothing else; find by the new value of a changed field then
\* includes the document, find by the old value does not
C25_Update ==
  [][(last'.op = "findOneAndUpdate" /\ last'.update # <<>> /\ findOne(col, last'.where) > 0)
       => LET p == findOne(col, last'.where)
              fields == last'.update[1]
          IN /\ Merged(col, col', p, fields)
             /\ last'.pos = p
             /\ \A f \in Changed(col, p, fields) :
                  /\ p \in Range(findPos(col', WObj(Single(f, fields[f]))))
                  /\ f \in DOMAIN col.dataMap[p].doc.data
                       => p \notin Range(findPos(col', WObj(Single(f,
                                                   col.dataMap[p].doc.data[f]))))]_vars

\* C26 (as claimed): findOne({}) on a non-empty collection returns null
C26_FindOneEmptyOriginal ==
  (last.op = "findOne" /\ last.where = WObj(<<>>) /\ col.dataMap # <<>>) => last.pos = 0

\* C26 (amended): findOne({}) returns the first document of a non-empty
\* collection, null only when the collection is empty; find({}) returns every
\* document in store order
C26_FindOneEmpty ==
  /\ (last.op = "findOne" /\ last.where = WObj(<<>>))
       => last.pos = (IF col.dataMap = <<>> THEN 0 ELSE 1)
  /\ (last.op = "find" /\ last.where = WObj(<<>>))
       => last.found = [i \in 1..Len(col.dataMap) |-> i]

\* findOne({}) on a collection of two different documents returned the first
C26_Witness ==
  /\ last.op = "findOne"
  /\ last.where = WObj(<<>>)
  /\ Len(col.dataMap) = 2
  /\ col.dataMap[1].doc.data # col.dataMap[2].doc.data
  /\ last.pos = 1

(***************************************************************************)
(* Claims about the counter and the identifiers.                           *)
(***************************************************************************)
\* C27 (as claimed): the counter never decreases but through clear()
C27_CounterMonotoneOriginal ==
  [][last'.op # "clear" => col'.counter >= col.counter]_vars

\* C27 (amended): insertOne, insertMany and findOneAndUpdate raise the counter
\* by one for each document they add, deleteOne leaves it, clear() sets it to
\* 0, and hydrate(s) sets it to the counter recorded in s (0 when s records
\* none), leaving it alone when s is no JSON or is null
C27_CounterMonotone ==
  [][/\ last'.op \in {"insertOne", "insertMany", "findOneAndUpdate"}
          => /\ col'.counter >= col.counter
             /\ col'.counter - col.counter = Len(col'.dataMap) - Len(col.dataMap)
     /\ last'.op = "deleteOne" => col'.counter = col.counter
     /\ last'.op = "clear" => col'.counter = 0
     /\ last'.op = "hydrateFrom"
          => col'.counter = (IF last'.text[1] \in {"invalid", "null"} THEN col.counter
                             ELSE IF last'.text[1] = "scalar" THEN 0
                             ELSE CounterOf(last'.text))]_vars

\* hydrate has taken the counter 1 of a text that holds no documents
C27_Witness ==
  /\ last.op = "hydrateFrom"
  /\ last.text = <<"obj", <<1>>, <<"array", <<>>>>>>
  /\ col.counter = 1
  /\ col.dataMap = <<>>

\* C28: the last 6 characters of generateId(counter) are counter modulo 2^24
\* in hexadecimal
C28_CounterSegment ==
  last.op = "generateId" =>
    CounterSegment(last.id1) = PadHex(last.c1 % (2^24), 6)

\* C29: counters that are not congruent modulo 2^24 give identifiers with
\* different counter segments
C29_DistinctSegments ==
  (last.op = "generateId" /\ last.c1 % (2^24) # last.c2 % (2^24)) =>
    CounterSegment(last.id1) # CounterSegment(last.id2)

\* C30: once abort() has returned, the handle installed before the call (if
\* any) is aborted and abortController holds a fresh handle, not null, whose
\* signal is not aborted
C30_AbortReplaces ==
  ev.type = "abort" =>
    /\ ev.handle \in {"none", "aborted"}
    /\ ctl.abortController = "live"

(***************************************************************************)
(* Claims about refetching, the controller's state and overlapping calls.  *)
(***************************************************************************)
\* what a fetch that returned yields as rows
RowsOf(result) == IF result[1] = "rows" THEN result[2] ELSE <<result[2]>>

C32_Ready ==
  (ev.type = "notify" /\ ev.task.kind = "initialise" /\ ev.task.fetched # <<"throw">>)
    => (ctl.loading = FALSE /\ ctl.error = "null")

\* C33: a get issued once reset() has been called reads no records, whatever
\* was stored and whatever commit was in flight, and the completion of a
\* storage operation changes nothing of what is stored: the store stays empty
\* until a later call writes to it
C33_ResetClearsStorage ==
  [][/\ (ev'.type = "reset" /\ nextId' = nextId + 1)
          => (get(storage') = <<>> /\ ev'.task.id = awaiting'[Len(awaiting')])
     /\ ev'.type = "notify" => storage' = storage]_vars

\* reset() has been called while a commit of a non-empty snapshot was waiting
\* for its set
C33_Witness ==
  /\ ev.type = "reset"
  /\ \E i \in 1..Len(tasks) : /\ tasks[i].kind = "commit"
                              /\ tasks[i].pc = "set"
                              /\ tasks[i].models # <<>>
  /\ Len(awaiting) = 2
  /\ get(storage) = <<>>

\* C34: when the last of the commits in flight completes, it is the commit that
\* was issued last: the store holds its snapshot and every subscriber is called
\* with it
C34_LastCommitWins ==
  [][(ev'.type = "notify" /\ ev'.task.kind = "commit" /\ tasks' = <<>>)
       => /\ ev'.task.id = nextId' - 1
          /\ ev'.snapshot = ev'.task.models
          /\ get(storage') = ev'.snapshot
          /\ ev'.to = subscribers']_vars

\* commit B, issued over two documents while commit A was waiting for its set,
\* has completed after A and called a subscriber
C34_Witness ==
  /\ ev.type = "notify"
  /\ ev.task.kind = "commit"
  /\ ev.task.id = 2
  /\ ~ev.task.quiet
  /\ Len(ev.snapshot) = 2
  /\ ev.to # <<>>
  /\ tasks = <<>>
  /\ get(storage) = ev.snapshot

\* C35: an initialise requested through the store (initialiseOnce or the bulk
\* initialise) while an initialise of the controller is in flight starts no
\* second run
C35_Collapse ==
  [][(/\ ev'.type \in {"initialiseOnce", "cached", "storeInitialise"}
      /\ \E i \in 1..Len(tasks) : tasks[i].kind = "initialise")
       => tasks' = tasks]_vars

\* C36: every model of a snapshot being persisted carries the identifier its
\* document is stored under: findOne(m._id) is the document whose toModel() is m
C36_ModelIds ==
  \A i \in 1..Len(tasks) :
    tasks[i].pc = "set" =>
      \A k \in 1..Len(tasks[i].models) :
        LET m == tasks[i].models[k]
            p == findOne(collection, WStr(m["_id"]))
        IN p > 0 /\ toModel(collection.dataMap[p].doc) = m

\* C37: when initialise(where) has hydrated from the store and issued its
\* commit, every record the store held for the call is still in the store
C37_KeepsPersisted ==
  (ev.type = "afterGet" /\ ev.task.path = "storage")
    => \A i \in 1..Len(ev.task.fromStorage) :
         \E k \in 1..Len(get(storage)) : get(storage)[k] = ev.task.fromStorage[i]

\* C38: loading is true whenever a fetch issued by initialise() is in flight
C38_LoadingWhileFetching ==
  (\E i \in 1..Len(tasks) : tasks[i].kind = "initialise" /\ tasks[i].pc = "fetch")
    => ctl.loading

\* C39: a fetch of initialise() that settles right after a reset() called while
\* it was in flight inserts nothing: the collection stays empty and total 0
C39_ResetDiscardsFetch ==
  [][(ev.type = "reset" /\ ev'.type = "afterFetch")
       => (collection'.dataMap = <<>> /\ ctl'.total = 0)]_vars

\* the WebSockets that are connecting or open
LiveSockets == {i \in 1..Len(sockets) : sockets[i] \in {"connecting", "open"}}

\* C40: a WebsocketInvalidator has at most one live socket, and one server
\* message calls the bound invalidate callback at most once
C40_OneSocket ==
  /\ Cardinality(LiveSockets) <= 1
  /\ invoked <= 1

====
